---- MODULE Spec2Model ----
(***************************************************************************)
(* Product recommendation agent: the extraction and normalisation          *)
(* pipeline (src/fetcher.py, src/site_parsers.py, src/parser.py,           *)
(* src/app.py).                                                            *)
(*                                                                         *)
(* Text is a sequence of tokens.  A token is one character, or one of the  *)
(* words the code searches for as a whole ("Rs", "INR", "From").  Python's *)
(* None is the one-token text NONE, so that every text value has the same  *)
(* type.                                                                   *)
(***************************************************************************)
EXTENDS Naturals, Integers, Sequences, FiniteSets, TLC

VARIABLES
  raw,       \* the text given to a price normaliser
  res,       \* what the normaliser returned
  fn,        \* the normaliser that was called
  urls,      \* the product URLs of this run
  web,       \* the page each URL serves
  imported,  \* whether the import of site_parsers succeeded
  files,     \* data/products: the record stored under each identifier
  pages,     \* data/pages: the page stored under each identifier
  first,     \* the record the first complete save_product of a URL wrote
  saved,     \* the URLs save_product has returned for
  op,        \* the last operation
  arg,       \* the arguments of a call of one of the pure functions
  ret,       \* what the call returned
  fnc,       \* the function that was called
  cache,     \* data/pages/urls_cache.json: the URL list stored under each key
  net,       \* the number of requests sent to SerpAPI
  apikey,    \* whether SERPAPI_KEY is set
  log,       \* the calls of serp_search so far, each with its outcome
  batch,     \* the URL list that the search pipeline works through
  pc,        \* where the pipeline is: the loop, the entry, the step
  cur,       \* the locals of save_product: what the passes returned
  paths,     \* saved_json_paths, as the entries of the batch they belong to
  augmented, \* augmented_paths, likewise
  index,     \* the identifiers upserted into the retrieval index
  events,    \* what has happened so far, each event with its entry
  last_products \* st.session_state['last_products'], empty while it is not set

priceVars == <<raw, res, fn>>
storeVars == <<urls, web, imported, files, pages, first, saved, op>>
fnVars == <<arg, ret, fnc>>
serpVars == <<cache, net, apikey, log>>
batchVars == <<batch, pc, cur, paths, augmented, index, events, last_products>>
nonFnVars == <<priceVars, storeVars, serpVars, batchVars>>
restVars == <<fnVars, serpVars, batchVars>>
vars == <<raw, res, fn, urls, web, imported, files, pages, first, saved, op, restVars>>

(***************************************************************************)
(* Tokens                                                                  *)
(***************************************************************************)
\* the rupee sign (U+20B9)
RUPEE == "Rupee"
NONE == <<"None">>

Digits == {"0", "1", "2", "3", "4", "5", "6", "7", "8", "9"}
DigitsComma == Digits \cup {","}
\* what \s matches: the space and the other whitespace characters
Whitespace == {" ", "\n"}
\* the phrases normalize_price_str deletes ("Starting at", "From", "As low as")
Qualifiers == {"From"}

MaxLen == 4
Alphabet == {RUPEE, "Rs", "INR", " ", "\n", ".", ",", "0", "1", "9", "x", "From"}
\* the price fragments the specification and the code's comments give as examples
Samples ==
  { <<RUPEE, "4", "9", "9", " ", "-", " ", RUPEE, "9", "9", "9">>,
    <<RUPEE, "9", "9", "9", " ", "-", " ", RUPEE, "4", "9", "9">>,
    <<"4", "9", "9", "-", "9", "9", "9">>,
    <<"Rs", ".", " ", "1", ",", "2", "9", "9", ".", "0", "0">>,
    <<"From", " ", "7", "9", "9">>,
    <<"rated", " ", "5", " ", "stars">>,
    <<"INR", " ", "1", "2", "9", "9">>,
    <<"1", "2", "9", "9">> }
Texts == UNION {[1..n -> Alphabet] : n \in 0..MaxLen} \cup Samples

(***************************************************************************)
(* Regular expressions of the price code, as matchers on token sequences   *)
(***************************************************************************)
Min(S) == CHOOSE x \in S : \A y \in S : x <= y
Max(S) == CHOOSE x \in S : \A y \in S : x >= y

\* the first index j >= i at which s leaves the token class S (Len(s)+1 at the end)
RunEnd(s, i, S) ==
  Min({j \in i..(Len(s) + 1) : j = Len(s) + 1 \/ s[j] \notin S})

\* [\d,]+(?:\.\d+)? matched at i: the index after the match, i when there is none
NumEnd(s, i) ==
  LET e1 == RunEnd(s, i, DigitsComma)
  IN IF e1 = i THEN i
     ELSE IF e1 + 1 <= Len(s) /\ s[e1] = "." /\ s[e1 + 1] \in Digits
          THEN RunEnd(s, e1 + 1, Digits)
          ELSE e1

\* the span <<first, last+1>> of the leftmost match of  X \s* [\d,]+(?:\.\d+)?
\* where X starts at i and ends before AfterX(i); <<0, 0>> when nothing matches
SpanFrom(s, i, j) ==
  LET n == RunEnd(s, j, Whitespace)
  IN IF NumEnd(s, n) > n THEN <<i, NumEnd(s, n)>> ELSE <<0, 0>>

\* re.search(r'(₹\s*[\d,]+(?:\.\d+)?)', s)
RupeeSpan(s, i) ==
  IF i <= Len(s) /\ s[i] = RUPEE THEN SpanFrom(s, i, i + 1) ELSE <<0, 0>>

\* re.search(r'(Rs\.?\s*[\d,]+(?:\.\d+)?)', s, re.IGNORECASE)
RsSpan(s, i) ==
  IF i <= Len(s) /\ s[i] = "Rs"
  THEN IF i + 1 <= Len(s) /\ s[i + 1] = "."
       THEN SpanFrom(s, i, i + 2)
       ELSE SpanFrom(s, i, i + 1)
  ELSE <<0, 0>>

\* re.search(r'([\d][\d,]*(?:\.\d+)?)', s)
BareSpan(s, i) ==
  IF i <= Len(s) /\ s[i] \in Digits THEN <<i, NumEnd(s, i)>> ELSE <<0, 0>>

FirstRupee(s) ==
  LET I == {i \in 1..Len(s) : RupeeSpan(s, i)[1] # 0}
  IN IF I = {} THEN <<0, 0>> ELSE RupeeSpan(s, Min(I))

FirstRs(s) ==
  LET I == {i \in 1..Len(s) : RsSpan(s, i)[1] # 0}
  IN IF I = {} THEN <<0, 0>> ELSE RsSpan(s, Min(I))

FirstBare(s) ==
  LET I == {i \in 1..Len(s) : BareSpan(s, i)[1] # 0}
  IN IF I = {} THEN <<0, 0>> ELSE BareSpan(s, Min(I))

Cut(s, span) == SubSeq(s, span[1], span[2] - 1)

(***************************************************************************)
(* str methods                                                             *)
(***************************************************************************)
IsWs(t) == t \in Whitespace
NotSpace(t) == t # " "
NotQualifier(t) == t \notin Qualifiers
IsDigit(t) == t \in Digits

\* str.strip()
strip(s) ==
  LET I == {i \in 1..Len(s) : s[i] \notin Whitespace}
  IN IF I = {} THEN <<>>
     ELSE SubSeq(s, Min(I), Max(I))

NumDigits(s) == Len(SelectSeq(s, IsDigit))

(***************************************************************************)
(* app.normalize_price_str                                                 *)
(***************************************************************************)
\* s = str(raw).strip(); s = s.replace("Starting at", "")...replace("As low as", "").strip()
CleanQualifiers_unstripped(r) == SelectSeq(strip(r), NotQualifier)
CleanQualifiers(r) == strip(SelectSeq(strip(r), NotQualifier))

\* m.group(1).replace(' ', '')
SymbolPrice(m) == SelectSeq(m, NotSpace)

\* '₹' + price_str
BarePrice_spaced(p) == <<RUPEE, " ">> \o p
BarePrice(p) == <<RUPEE>> \o p

normalize_price_str(r) ==
  IF r = NONE \/ r = <<>> THEN NONE
  ELSE LET s == CleanQualifiers(r)
           m1 == FirstRupee(s)
           m2 == FirstRs(s)
           m3 == FirstBare(s)
       IN IF m1[1] # 0 THEN SymbolPrice(Cut(s, m1))
          ELSE IF m2[1] # 0 THEN SymbolPrice(Cut(s, m2))
          ELSE IF m3[1] # 0 /\ NumDigits(Cut(s, m3)) >= 2
               THEN BarePrice(Cut(s, m3))
          ELSE IF s = <<>> THEN NONE ELSE s

(***************************************************************************)
(* Numbers: float(n.replace(',', '')), min, int and f"{x:,}"               *)
(***************************************************************************)
DigitVal(t) ==
  CASE t = "0" -> 0 [] t = "1" -> 1 [] t = "2" -> 2 [] t = "3" -> 3
    [] t = "4" -> 4 [] t = "5" -> 5 [] t = "6" -> 6 [] t = "7" -> 7
    [] t = "8" -> 8 [] t = "9" -> 9

DigitChar(d) == <<"0", "1", "2", "3", "4", "5", "6", "7", "8", "9">>[d + 1]

RECURSIVE Pow10(_)
Pow10(k) == IF k = 0 THEN 1 ELSE 10 * Pow10(k - 1)

\* the natural number written by a sequence of digits (0 for no digits)
RECURSIVE ToNat(_)
ToNat(ds) ==
  IF ds = <<>> THEN 0
  ELSE 10 * ToNat(SubSeq(ds, 1, Len(ds) - 1)) + DigitVal(ds[Len(ds)])

\* str(n) for a natural number
RECURSIVE NatDigits(_)
NatDigits(n) ==
  IF n < 10 THEN <<DigitChar(n)>>
  ELSE Append(NatDigits(n \div 10), DigitChar(n % 10))

\* f"{n:,}" for a natural number: groups of three from the right
RECURSIVE Grouped(_)
Grouped(ds) ==
  IF Len(ds) <= 3 THEN ds
  ELSE Grouped(SubSeq(ds, 1, Len(ds) - 3)) \o <<",">> \o SubSeq(ds, Len(ds) - 2, Len(ds))

\* a numeric match n, split at its decimal point: integer digits and fraction digits
IntPart(n) ==
  LET D == {i \in 1..Len(n) : n[i] = "."}
  IN SelectSeq(IF D = {} THEN n ELSE SubSeq(n, 1, Min(D) - 1), IsDigit)

FracPart(n) ==
  LET D == {i \in 1..Len(n) : n[i] = "."}
  IN IF D = {} THEN <<>> ELSE SubSeq(n, Min(D) + 1, Len(n))

\* float('') raises ValueError: a match made of commas only
FloatRaises(n) == IntPart(n) = <<>> /\ FracPart(n) = <<>>

\* the fraction digits without trailing zeros
RECURSIVE TrimZeros(_)
TrimZeros(f) ==
  IF f # <<>> /\ f[Len(f)] = "0" THEN TrimZeros(SubSeq(f, 1, Len(f) - 1)) ELSE f

\* float(a) <= float(b): integer parts first, then the fractions as numbers of w digits
FloatLeq(a, b, w) ==
  LET ia == ToNat(IntPart(a))
      ib == ToNat(IntPart(b))
      fa == ToNat(FracPart(a)) * Pow10(w - Len(FracPart(a)))
      fb == ToNat(FracPart(b)) * Pow10(w - Len(FracPart(b)))
  IN ia < ib \/ (ia = ib /\ fa <= fb)

is_integer(n) == TrimZeros(FracPart(n)) = <<>>

\* f"{int(x):,}"
FormatInt(n) == Grouped(NatDigits(ToNat(IntPart(n))))

\* f"{x:,}" for a float x: repr keeps one fraction digit at least
FormatFloat(n) ==
  FormatInt(n) \o <<".">> \o
    (IF TrimZeros(FracPart(n)) = <<>> THEN <<"0">> ELSE TrimZeros(FracPart(n)))

(***************************************************************************)
(* parser._normalize_num_str                                               *)
(***************************************************************************)
\* out.replace("INR", "").replace("Rs.", "₹").replace("Rs", "₹")
NotINR(t) == t # "INR"

RECURSIVE ReplaceRs(_)
ReplaceRs(s) ==
  IF s = <<>> THEN <<>>
  ELSE IF s[1] = "Rs" /\ Len(s) >= 2 /\ s[2] = "."
       THEN <<RUPEE>> \o ReplaceRs(SubSeq(s, 3, Len(s)))
  ELSE IF s[1] = "Rs" THEN <<RUPEE>> \o ReplaceRs(Tail(s))
  ELSE <<s[1]>> \o ReplaceRs(Tail(s))

ReplaceCurrency(s) == ReplaceRs(SelectSeq(s, NotINR))

\* re.findall(r'₹?\s*([\d,]+(?:\.\d+)?)', s) from index p on
RECURSIVE FindNums(_, _)
FindNums(s, p) ==
  LET I == {i \in p..Len(s) : s[i] \in DigitsComma}
  IN IF I = {} THEN <<>>
     ELSE <<SubSeq(s, Min(I), NumEnd(s, Min(I)) - 1)>> \o FindNums(s, NumEnd(s, Min(I)))

KeepPriceChars(t) == t \in DigitsComma \cup {".", RUPEE}

_normalize_num_str(r) ==
  IF r = NONE \/ r = <<>> THEN r
  ELSE LET out == ReplaceCurrency(strip(r))
           nums == FindNums(out, 1)
           ok == nums # <<>> /\ \A i \in 1..Len(nums) : ~FloatRaises(nums[i])
           w == Max({Len(FracPart(nums[i])) : i \in 1..Len(nums)})
           smallest == CHOOSE i \in 1..Len(nums) :
                         \A j \in 1..Len(nums) : FloatLeq(nums[i], nums[j], w)
           fb == SelectSeq(out, KeepPriceChars)
       IN IF ok
          THEN IF \A i \in 1..Len(nums) : is_integer(nums[i])
               THEN <<RUPEE>> \o FormatInt(nums[smallest])
               ELSE <<RUPEE>> \o FormatFloat(nums[smallest])
          ELSE IF fb # <<>> /\ fb[1] # RUPEE THEN <<RUPEE>> \o fb ELSE fb

(***************************************************************************)
(* URLs and the record identifier (fetcher._slugify)                       *)
(***************************************************************************)
\* urlparse(url): netloc, path and the rest (query), each a text
Url(netloc, path, query) == [netloc |-> netloc, path |-> path, query |-> query]
NoUrl == Url(<<>>, <<>>, <<>>)

AmazonUrl == Url(<<"www", ".", "amazon", ".", "in">>, <<"/", "dp", "/", "B0">>, <<>>)
AmazonUrlRef == Url(<<"www", ".", "amazon", ".", "in">>, <<"/", "dp", "/", "B0">>, <<"ref">>)
FlipkartUrl == Url(<<"www", ".", "flipkart", ".", "com">>, <<"/", "p", "/", "itm">>, <<>>)
ShopUrl == Url(<<"shop", ".", "example">>, <<"/", "item", "/", "1">>, <<>>)

\* str.replace(old, new) for one-character old and new
Replace(s, old, new) == [i \in 1..Len(s) |-> IF s[i] = old THEN new ELSE s[i]]

SlugPathLen == 80

\* f"{netloc.replace('.', '_')}{path.replace('/', '_')[:80]}"
_slugify_shorter(u) ==
  LET p == Replace(u.path, "/", "_")
  IN Replace(u.netloc, ".", "_")
       \o SubSeq(p, 1, IF Len(p) < SlugPathLen - 1 THEN Len(p) ELSE SlugPathLen - 1)
_slugify(u) ==
  LET p == Replace(u.path, "/", "_")
  IN Replace(u.netloc, ".", "_") \o SubSeq(p, 1, IF Len(p) < SlugPathLen THEN Len(p) ELSE SlugPathLen)

(***************************************************************************)
(* Pages: what the extractors read of a fetched document                   *)
(***************************************************************************)
\* A parsed JSON value of a JSON-LD block.  k: "product" (a dict whose @type
\* is Product; rec is the dict), "graph" (a dict with an @graph list, items),
\* "main" (a dict with mainEntity, items[1]), "list", "other" (another dict),
\* "scalar" (not a dict).
NoRec ==
  [name |-> NONE, description |-> NONE, offers |-> "absent", offers_price |-> NONE,
   price |-> NONE, has_images |-> FALSE, images |-> <<>>, reviews |-> <<>>,
   source_url |-> NoUrl, ld |-> FALSE]

JProduct(name, offers, oprice) ==
  [k |-> "product", items |-> <<>>,
   rec |-> [NoRec EXCEPT !.name = name, !.offers = offers, !.offers_price = oprice,
                         !.ld = TRUE]]
\* a Product that has a "reviews" and a "source_url" entry of its own
JReviewed(name, reviews, u) ==
  [k |-> "product", items |-> <<>>,
   rec |-> [NoRec EXCEPT !.name = name, !.reviews = reviews, !.source_url = u, !.ld = TRUE]]
JWrap(k, items) == [k |-> k, items |-> items, rec |-> NoRec]
JOther == JWrap("other", <<>>)
JScalar == JWrap("scalar", <<>>)

\* A <script>: kind "plain" (not of type application/ld+json; val is what
\* json.loads gives for its text), "empty" (JSON-LD, no text), "json" (JSON-LD,
\* json.loads succeeds, val), "bad" (JSON-LD, json.loads raises; chunks are the pieces
\* of re.split(r'\}\s*\{', raw) after the braces are put back, each a parsed
\* value or JBad when it does not parse).  text is the script's text, review
\* the reviewBody values of its "review" entry: a text, or JObject for a
\* value that is a non-empty JSON object or list.
JBad == JWrap("bad", <<>>)
JObject == <<"Object">>
Script(kind, val, chunks, text, review) ==
  [kind |-> kind, val |-> val, chunks |-> chunks, text |-> text, review |-> review]

\* The document: its JSON-LD scripts, the h1 title, the meta description, the
\* text of the element of class "price", the rest of the visible text, the
\* og:image and twitter:image metas, the src of img#landingImage, and the
\* texts of the elements of class "review-text".
Page(scripts, title, desc, priceNode, body, og, tw, landing, reviews) ==
  [scripts |-> scripts, title |-> title, desc |-> desc, priceNode |-> priceNode,
   body |-> body, og |-> og, tw |-> tw, landing |-> landing, reviews |-> reviews]

T499 == <<"4", "9", "9">>
R499 == <<RUPEE, " ", "4", "9", "9">>
R999 == <<RUPEE, "9", "9", "9">>
Rs1299 == <<"Rs", ".", " ", "1", ",", "2", "9", "9">>
Title == <<"x">>
\* an absolute http URL of more than 50 characters, on the CDN of Amazon
Img(n) == <<"http", n>>
\* in place of the src of the img: the img has no src and its srcset starts
\* with a comma
BadSrcset == <<"srcset", ",">>

PageList ==
  << \* 1: an empty document
     Page(<<>>, NONE, NONE, NONE, <<>>, NONE, NONE, NONE, <<>>),
     \* 2: a JSON-LD Product with offers.price "499"; the page shows another price
     Page(<<Script("json", JProduct(Title, "dict", T499), <<>>, <<"offers", "price">> \o T499, <<>>)>>,
          Title, NONE, R999, <<>>, Img("og"), NONE, NONE, <<>>),
     \* 3: a JSON-LD Product whose offers is a list of offers
     Page(<<Script("json", JProduct(Title, "list", NONE), <<>>, <<"offers">>, <<>>)>>,
          Title, NONE, R499, <<>>, NONE, NONE, NONE, <<>>),
     \* 4: the first JSON-LD block is malformed and no piece of it parses
     Page(<<Script("bad", JBad, <<JBad>>, <<>>, <<>>)>>,
          Title, NONE, Rs1299, <<>>, NONE, NONE, NONE, <<>>),
     \* 5: two objects glued together; the second piece is a Product
     Page(<<Script("bad", JBad, <<JOther, JProduct(Title, "dict", R499)>>, <<"offers", "price">> \o R499, <<>>)>>,
          Title, NONE, NONE, <<>>, NONE, NONE, NONE, <<>>),
     \* 6: a well-formed block that is no Product, then a malformed one
     Page(<<Script("json", JOther, <<>>, <<>>, <<>>), Script("bad", JBad, <<JBad>>, <<>>, <<>>)>>,
          Title, NONE, R499, <<"Rs", " ", "9", "9", "9">>, NONE, Img("tw"), Img("landing"), <<>>),
     \* 7: no structured data; price written with Rs., reviews
     Page(<<>>, Title, <<"x">>, Rs1299, <<>>, NONE, NONE, Img("landing"),
          << <<"good">>, <<"good">>, <<"bad">> >>),
     \* 8: no structured data; a price range, highest first; two image sources
     Page(<<>>, Title, NONE, R999 \o <<" ", "-", " ">> \o R499, <<>>, NONE, Img("tw"), Img("landing"), <<>>),
     \* 9: a Product inside an @graph list, offers without a price
     Page(<<Script("empty", JBad, <<>>, <<>>, <<>>),
            Script("json", JWrap("graph", <<JScalar, JProduct(Title, "dict", NONE)>>), <<>>, <<>>, <<>>)>>,
          NONE, NONE, NONE, <<"1", "2", "9", "9">>, Img("og"), NONE, NONE, <<>>),
     \* 10: an empty JSON-LD block, then a malformed one that does not recover
     Page(<<Script("empty", JBad, <<>>, <<>>, <<>>), Script("bad", JBad, <<JBad>>, <<>>, <<>>)>>,
          NONE, NONE, <<"x">>, <<>>, NONE, NONE, NONE, <<>>),
     \* 11: no structured data; the price element holds no amount
     Page(<<>>, <<"apple", " ", "x">>, NONE, <<"x">>, <<>>, NONE, NONE, NONE, <<>>)
  >>
PageIds == 1..Len(PageList)

\* soup.get_text(" ", strip=True): the visible texts in document order (the
\* text of a script element is no part of it)
Join(a, b) == IF a = <<>> THEN b ELSE IF b = <<>> THEN a ELSE a \o <<" ">> \o b
Opt(t) == IF t = NONE THEN <<>> ELSE strip(t)
RECURSIVE JoinAll(_)
JoinAll(ts) == IF ts = <<>> THEN <<>> ELSE Join(strip(ts[1]), JoinAll(Tail(ts)))
PageText(pg) ==
  Join(Opt(pg.title), Join(Opt(pg.priceNode), Join(strip(pg.body), JoinAll(pg.reviews))))

(***************************************************************************)
(* fetcher.extract_json_ld                                                 *)
(***************************************************************************)
Found(rec) == [status |-> "product", rec |-> rec]
NotFound == [status |-> "none", rec |-> NoRec]
Raised == [status |-> "raise", rec |-> NoRec]

IsProduct(v) == v.k = "product"
FirstProduct(items) == items[Min({i \in 1..Len(items) : IsProduct(items[i])})]
HasProduct(items) == \E i \in 1..Len(items) : IsProduct(items[i])

\* lines 104-119: the checks made on a parsed block
CheckData(data) ==
  IF IsProduct(data) THEN Found(data.rec)
  ELSE IF data.k \in {"graph", "list"} /\ HasProduct(data.items)
       THEN Found(FirstProduct(data.items).rec)
  ELSE IF data.k = "main" /\ IsProduct(data.items[1]) THEN Found(data.items[1].rec)
  ELSE NotFound

\* lines 88-99: the checks made on one piece of a malformed block.  In an
\* @graph list, item.get raises on an item that is no dict; the except clause
\* then gives up the piece.
CheckChunk(jd) ==
  IF IsProduct(jd) THEN Found(jd.rec)
  ELSE IF jd.k = "graph"
       THEN LET P == {i \in 1..Len(jd.items) : IsProduct(jd.items[i])}
                X == {i \in 1..Len(jd.items) : jd.items[i].k \in {"scalar", "list"}}
            IN IF P # {} /\ (X = {} \/ Min(P) < Min(X))
               THEN Found(jd.items[Min(P)].rec)
               ELSE NotFound
  ELSE NotFound

\* lines 79-101: split-and-retry
RetryChunks(chunks) ==
  LET H == {i \in 1..Len(chunks) : CheckChunk(chunks[i]).status = "product"}
  IN IF H = {} THEN NotFound ELSE CheckChunk(chunks[Min(H)])

\* the loop over the scripts from script i on; bound says whether the local
\* variable data has been assigned, data is its value
RECURSIVE ScanScripts(_, _, _, _)
ScanScripts(scripts, i, bound, data) ==
  IF i > Len(scripts) THEN NotFound
  ELSE LET s == scripts[i]
       IN IF s.kind \in {"empty", "plain"} THEN ScanScripts(scripts, i + 1, bound, data)
          ELSE IF s.kind = "json"
               THEN IF CheckData(s.val).status = "product" THEN CheckData(s.val)
                    ELSE ScanScripts(scripts, i + 1, TRUE, s.val)
          ELSE IF RetryChunks(s.chunks).status = "product" THEN RetryChunks(s.chunks)
          \* line 104 reads data: UnboundLocalError when no block has parsed yet
          ELSE IF ~bound THEN Raised
          ELSE IF CheckData(data).status = "product" THEN CheckData(data)
          ELSE ScanScripts(scripts, i + 1, bound, data)

extract_json_ld(pg) == ScanScripts(pg.scripts, 1, FALSE, JBad)

(***************************************************************************)
(* fetcher.fallback_extract                                                *)
(***************************************************************************)
\* node.get_text(strip=True) if node else None
_text_or_none(t) == IF t = NONE THEN NONE ELSE strip(t)

Truthy(t) == t # NONE /\ t # <<>>
Or(a, b) == IF Truthy(a) THEN a ELSE b

\* re.search(r'(₹|Rs\.?|INR)\s*[\d,]+(?:\.\d+)?', txt), case-sensitive
CurrencySpan(s, i) ==
  IF i <= Len(s) /\ s[i] = "INR" THEN SpanFrom(s, i, i + 1)
  ELSE IF RupeeSpan(s, i)[1] # 0 THEN RupeeSpan(s, i)
  ELSE RsSpan(s, i)

FirstCurrency(s) ==
  LET I == {i \in 1..Len(s) : CurrencySpan(s, i)[1] # 0}
  IN IF I = {} THEN <<0, 0>> ELSE CurrencySpan(s, Min(I))

Group0(s, span) == IF span[1] = 0 THEN NONE ELSE Cut(s, span)

\* lines 207-218: drop the empty ones and the repeats, stop at five
ReviewLimit == 5
RECURSIVE Unique(_, _)
Unique(rs, out) ==
  IF rs = <<>> \/ Len(out) >= ReviewLimit THEN out
  ELSE IF ~Truthy(rs[1]) \/ (\E i \in 1..Len(out) : out[i] = rs[1])
       THEN Unique(Tail(rs), out)
       ELSE Unique(Tail(rs), Append(out, rs[1]))

Take(s, n) == SubSeq(s, 1, IF Len(s) < n THEN Len(s) ELSE n)
RECURSIVE Concat(_)
Concat(ss) == IF ss = <<>> THEN <<>> ELSE ss[1] \o Concat(Tail(ss))
Map(s, Op(_)) == [i \in 1..Len(s) |-> Op(s[i])]

\* lines 175-193: the review entries of the scripts that parse to a dict
ScriptReviews(s) ==
  IF s.kind \in {"json", "plain"} /\ s.val.k \notin {"list", "scalar", "bad"}
  THEN Take(s.review, ReviewLimit) ELSE <<>>

\* lines 175-205: the reviews collected, from the scripts and then the nodes
FallbackReviews(pg) ==
  Concat(Map(pg.scripts, ScriptReviews))
    \o SelectSeq(Map(Take(pg.reviews, ReviewLimit), _text_or_none), Truthy)

\* line 213: r in seen raises TypeError when r is a dict or a list
RECURSIVE UniqueRaises(_, _)
UniqueRaises(rs, out) ==
  IF rs = <<>> \/ Len(out) >= ReviewLimit THEN FALSE
  ELSE IF ~Truthy(rs[1]) THEN UniqueRaises(Tail(rs), out)
  ELSE IF rs[1] = JObject THEN TRUE
  ELSE IF \E i \in 1..Len(out) : out[i] = rs[1] THEN UniqueRaises(Tail(rs), out)
  ELSE UniqueRaises(Tail(rs), Append(out, rs[1]))

fallback_raises(pg) == UniqueRaises(FallbackReviews(pg), <<>>)

fallback_extract(pg) ==
  LET title == _text_or_none(pg.title)
      fromNode == IF pg.priceNode = NONE THEN NONE ELSE strip(pg.priceNode)
      price == IF Truthy(fromNode) THEN fromNode
               ELSE Group0(PageText(pg), FirstCurrency(PageText(pg)))
      reviews == FallbackReviews(pg)
  IN [NoRec EXCEPT !.name = Or(title, <<"Unknown">>),
                   !.description = Or(pg.desc, <<>>),
                   !.offers = "dict",
                   !.offers_price = price,
                   !.reviews = Unique(reviews, <<>>)]

(***************************************************************************)
(* site_parsers                                                            *)
(***************************************************************************)
\* _collect_reviews_by_selectors
_collect_reviews_by_selectors(nodes, limit) ==
  Take(Unique(Map(nodes, strip), <<>>), limit)

\* m = re.search(r'(₹\s*[\d,]+(?:\.\d+)?)', txt); m.group(1)
RupeePrice(txt) == Group0(txt, FirstRupee(txt))

\* the three parsers differ, on these documents, in the selectors that the
\* document's elements match: site is "amazon", "flipkart" or "nykaa"
SiteParse(site, pg, u) ==
  LET title == _text_or_none(pg.title)
      img == IF Truthy(pg.og) THEN pg.og
             ELSE IF site = "amazon" /\ Truthy(pg.landing) /\ pg.landing # BadSrcset
             THEN pg.landing
             ELSE NONE
      node == IF site = "amazon" \/ pg.priceNode = NONE THEN NONE
              ELSE RupeePrice(strip(pg.priceNode))
      price == IF Truthy(node) THEN node ELSE RupeePrice(PageText(pg))
      reviews == IF site = "amazon"
                 THEN _collect_reviews_by_selectors(pg.reviews, ReviewLimit)
                 ELSE <<>>
  IN [NoRec EXCEPT !.name = Or(title, <<>>),
                   !.description = <<>>,
                   !.offers = "dict",
                   !.offers_price = price,
                   !.has_images = TRUE,
                   !.images = IF Truthy(img) THEN <<img>> ELSE <<>>,
                   !.reviews = reviews,
                   !.source_url = u]

parse_amazon(pg, u) == SiteParse("amazon", pg, u)
parse_flipkart(pg, u) == SiteParse("flipkart", pg, u)
parse_nykaa(pg, u) == SiteParse("nykaa", pg, u)

In(word, t) == \E i \in 1..Len(t) : t[i] = word

\* {} for a domain that is not known
EmptyDict == NoRec
parse_for_domain(domain, pg, u) ==
  IF In("amazon", domain) THEN parse_amazon(pg, u)
  ELSE IF In("flipkart", domain) THEN parse_flipkart(pg, u)
  ELSE IF In("nykaa", domain) THEN parse_nykaa(pg, u)
  ELSE EmptyDict

(***************************************************************************)
(* fetcher.parse_product                                                   *)
(***************************************************************************)
\* The outcome of parse_product: whether it raised, the record it returns
\* (stamped with source_url), the extractors it called in order, and the one
\* whose record it took.  fetched: fetch_html returned the page.  hasSite:
\* the import of site_parsers succeeded (parse_for_domain is a function and not
\* None).
Outcome(raised, data, calls, stage) ==
  [raised |-> raised, data |-> data, calls |-> calls, stage |-> stage]

SiteUsable(sp) == sp # EmptyDict /\ sp.source_url # NoUrl

\* line 257: data["source_url"] = url
Stamp_setdefault(data, u) ==
  IF data.source_url # NoUrl THEN data ELSE [data EXCEPT !.source_url = u]
Stamp(data, u) == [data EXCEPT !.source_url = u]

\* lines 249-254: the fallback is called in the try block (inTry) or in the
\* except clause; a raise in the try block leads to the except clause
Fallback(u, pg, calls, inTry) ==
  IF fallback_raises(pg)
  THEN Outcome(TRUE, NoRec,
               IF inTry THEN calls \o <<"fallback", "fallback">> ELSE Append(calls, "fallback"),
               "fallback")
  ELSE Outcome(FALSE, Stamp(fallback_extract(pg), u), Append(calls, "fallback"), "fallback")

parse_product_site_first(u, fetched, pg, hasSite) ==
  IF ~fetched THEN Outcome(TRUE, NoRec, <<>>, "fetch")
  ELSE LET sp == parse_for_domain(u.netloc, pg, u)
       IN IF hasSite /\ SiteUsable(sp)
          THEN Outcome(FALSE, Stamp(sp, u), <<"site">>, "site")
          ELSE Fallback(u, pg, <<"site">>, hasSite)
parse_product(u, fetched, pg, hasSite) ==
  IF ~fetched THEN Outcome(TRUE, NoRec, <<>>, "fetch")
  ELSE LET ld == extract_json_ld(pg)
           sp == parse_for_domain(u.netloc, pg, u)
       IN IF ld.status = "raise" THEN Outcome(TRUE, NoRec, <<"json_ld">>, "json_ld")
          ELSE IF ld.status = "product"
               THEN Outcome(FALSE, Stamp(ld.rec, u), <<"json_ld">>, "json_ld")
          ELSE IF ~hasSite THEN Fallback(u, pg, <<"json_ld", "site">>, FALSE)
          ELSE IF SiteUsable(sp)
               THEN Outcome(FALSE, Stamp(sp, u), <<"json_ld", "site">>, "site")
          ELSE Fallback(u, pg, <<"json_ld", "site">>, TRUE)

(***************************************************************************)
(* parser._score_candidate                                                 *)
(***************************************************************************)
\* the keywords of _score_candidate that a token holds, in lower case
KeywordsIn(tok) ==
  CASE tok = "price" -> {"price"}
    [] tok = "mrp" -> {"mrp"}
    [] tok = "offer" -> {"offer"}
    [] tok = "offers" -> {"offer", "rs"}
    [] tok = "deal" -> {"deal"}
    [] tok = "stars" -> {"rs"}
    [] tok = "Rs" -> {"rs"}
    [] tok = RUPEE -> {RUPEE}
    [] OTHER -> {}

\* kw in t, for a keyword of one word
HasKeyword(t, kw) == \E i \in 1..Len(t) : kw \in KeywordsIn(t[i])

StrongBonus == 2
WeakBonus == 1
LongNumber == 4

\* line 64: the keywords in the order of the loop, each a sequence of words
StrongKeywords ==
  << <<"price">>, <<"mrp">>, <<"offer">>, <<"deal">>, <<"you", " ", "pay">>,
     <<"our", " ", "price">>, <<"special", " ", "price">> >>
WeakKeywords == << <<RUPEE>>, <<"rs">> >>
Keywords == StrongKeywords \o WeakKeywords

\* kw in t: the words of kw lie in consecutive tokens of t
WordIn(w, tok) == tok = w \/ w \in KeywordsIn(tok)
KwIn(kw, t) ==
  \E i \in 1..(Len(t) - Len(kw) + 1) : \A j \in 1..Len(kw) : WordIn(kw[j], t[i + j - 1])

\* line 66: 2 for a keyword of the tuple of strong ones, 1 for another
Bonus(k) == IF k <= Len(StrongKeywords) THEN StrongBonus ELSE WeakBonus

\* lines 64-66: the loop over the keywords from the k-th on
RECURSIVE ScoreKeywords_first(_, _, _)
ScoreKeywords_first(t, k, score) ==
  IF k > Len(Keywords) THEN score
  ELSE IF KwIn(Keywords[k], t) THEN score + Bonus(k)
  ELSE ScoreKeywords_first(t, k + 1, score)
RECURSIVE ScoreKeywords(_, _, _)
ScoreKeywords(t, k, score) ==
  IF k > Len(Keywords) THEN score
  ELSE ScoreKeywords(t, k + 1, IF KwIn(Keywords[k], t) THEN score + Bonus(k) ELSE score)

_score_candidate(t, base) ==
  ScoreKeywords(t, 1, base) + (IF NumDigits(t) >= LongNumber THEN 1 ELSE 0)

(***************************************************************************)
(* parser.fetch_image_and_price_from_url (the live re-scout pass)          *)
(***************************************************************************)
\* PRICE_REGEX: (₹\s*[\d,]+(?:\.\d+)?)|(?:Rs\.?\s*[\d,]+(?:\.\d+)?)
PriceSpan(s, i) == IF RupeeSpan(s, i)[1] # 0 THEN RupeeSpan(s, i) ELSE RsSpan(s, i)

\* PRICE_REGEX.finditer(s) from index p on: the spans of the matches
RECURSIVE PriceMatches(_, _)
PriceMatches(s, p) ==
  LET I == {i \in p..Len(s) : PriceSpan(s, i)[1] # 0}
  IN IF I = {} THEN <<>>
     ELSE <<PriceSpan(s, Min(I))>> \o PriceMatches(s, PriceSpan(s, Min(I))[2])

Candidate(norm, score) == [norm |-> norm, score |-> score]

SelectorBase == 4
JsonLdBase == 3
ContextBase == 0
ContextRadius == 120

\* lines 172-179: the preferred selectors; the document has the one of class "price"
SelectorCandidates(pg) ==
  IF pg.priceNode = NONE THEN <<>>
  ELSE LET text == strip(pg.priceNode)
           ms == PriceMatches(text, 1)
       IN IF ms = <<>> THEN <<>>
          ELSE <<Candidate(_normalize_num_str(Cut(text, ms[1])),
                           _score_candidate(text, SelectorBase))>>

\* lines 182-187: the JSON-LD scripts that mention a price
ScriptCandidates(s) ==
  IF s.kind \notin {"empty", "plain"} /\ (HasKeyword(s.text, "price") \/ In("offers", s.text))
  THEN LET ms == PriceMatches(s.text, 1)
       IN [i \in 1..Len(ms) |->
             Candidate(_normalize_num_str(Cut(s.text, ms[i])),
                       _score_candidate(s.text, JsonLdBase))]
  ELSE <<>>

\* lines 190-196: every match in the visible text, scored on its surroundings
ContextCandidates(pg) ==
  LET txt == PageText(pg)
      ms == PriceMatches(txt, 1)
      Ctx(m) == SubSeq(txt,
                       IF m[1] - ContextRadius < 1 THEN 1 ELSE m[1] - ContextRadius,
                       IF m[2] - 1 + ContextRadius > Len(txt) THEN Len(txt)
                       ELSE m[2] - 1 + ContextRadius)
  IN [i \in 1..Len(ms) |->
        Candidate(_normalize_num_str(Cut(txt, ms[i])),
                  _score_candidate(Ctx(ms[i]), ContextBase))]

Candidates(pg) ==
  SelectorCandidates(pg) \o Concat(Map(pg.scripts, ScriptCandidates)) \o ContextCandidates(pg)

\* float(re.sub(r'[^\d.]', '', k) or 0) of a normalised price k, as a number text
Magnitude(k) ==
  LET d == SelectSeq(k, LAMBDA t : t \in Digits \cup {"."})
  IN IF d = <<>> THEN <<"0">> ELSE d

\* lines 199-217: group by normalised value, keep the greatest score and the
\* count, take the greatest (score, count, magnitude); the first one met wins
\* among equals
BestPrice_count_first(cands) ==
  IF cands = <<>> THEN NONE
  ELSE LET Idx == 1..Len(cands)
           Score(k) == Max({cands[i].score : i \in {j \in Idx : cands[j].norm = k}})
           Times(k) == Cardinality({i \in Idx : cands[i].norm = k})
           First(k) == Min({i \in Idx : cands[i].norm = k})
           Keys == {cands[i].norm : i \in Idx}
           Greater(a, b) ==
             \/ Times(a) > Times(b)
             \/ Times(a) = Times(b) /\ Score(a) > Score(b)
       IN CHOOSE k \in Keys :
            \A o \in Keys \ {k} : Greater(k, o) \/ (~Greater(o, k) /\ First(k) < First(o))
BestPrice(cands) ==
  IF cands = <<>> THEN NONE
  ELSE LET Idx == 1..Len(cands)
           Score(k) == Max({cands[i].score : i \in {j \in Idx : cands[j].norm = k}})
           Times(k) == Cardinality({i \in Idx : cands[i].norm = k})
           First(k) == Min({i \in Idx : cands[i].norm = k})
           Keys == {cands[i].norm : i \in Idx}
           Greater(a, b) ==
             \/ Score(a) > Score(b)
             \/ Score(a) = Score(b) /\ Times(a) > Times(b)
             \/ Score(a) = Score(b) /\ Times(a) = Times(b)
                /\ ~FloatLeq(Magnitude(a), Magnitude(b),
                            Max({Len(FracPart(Magnitude(a))), Len(FracPart(Magnitude(b)))}))
       IN CHOOSE k \in Keys :
            \A o \in Keys \ {k} : Greater(k, o) \/ (~Greater(o, k) /\ First(k) < First(o))

\* lines 98-162: og:image, then twitter:image, then the first img that has a src
BestImage(pg) == Or(pg.og, Or(pg.tw, Or(pg.landing, NONE)))

\* lines 140-141: val.split(',')[0].split()[0] raises IndexError on a srcset
\* that starts with a comma; the image is not yet set when it is reached
ScoutRaises(pg) == ~Truthy(pg.og) /\ ~Truthy(pg.tw) /\ pg.landing = BadSrcset

Meta(image, price) == [image |-> image, price |-> price]

\* fetched: requests.get returned the page pg with a 2xx status; the except
\* clause of line 243 returns out as it is when the exception is raised
fetch_image_and_price_from_url_partial(fetched, pg) ==
  IF ~fetched \/ ScoutRaises(pg) THEN Meta(NONE, BestPrice(Candidates(pg)))
  ELSE Meta(BestImage(pg), BestPrice(Candidates(pg)))
fetch_image_and_price_from_url(fetched, pg) ==
  IF ~fetched \/ ScoutRaises(pg) THEN Meta(NONE, NONE)
  ELSE Meta(BestImage(pg), BestPrice(Candidates(pg)))

(***************************************************************************)
(* parser.save_product                                                     *)
(***************************************************************************)
\* lines 268-272; raises TypeError when offers is a list
MergePrice(data, price) ==
  IF ~Truthy(price) THEN data
  ELSE [data EXCEPT !.offers = "dict", !.offers_price = price, !.price = price]

MergeRaises(data, price) == Truthy(price) /\ data.offers = "list"

\* lines 275-279
MergeImage(data, image) ==
  IF ~Truthy(image) THEN data
  ELSE [data EXCEPT !.has_images = TRUE,
                    !.images = IF \E i \in 1..Len(data.images) : data.images[i] = image
                               THEN data.images
                               ELSE <<image>> \o data.images]

\* the outcome of save_product: whether it raised, and the record it writes
Saved(raised, data) == [raised |-> raised, data |-> data]

save_product(parsed, meta) ==
  IF parsed.raised \/ MergeRaises(parsed.data, meta.price) THEN Saved(TRUE, NoRec)
  ELSE Saved(FALSE, MergeImage(MergePrice(parsed.data, meta.price), meta.image))

(***************************************************************************)
(* app.augment_and_save_product                                            *)
(***************************************************************************)
FallbackImage(kind) == <<"https", "wikimedia", kind>>

pick_keyword_fallback_image(title) ==
  IF In("iphone", title) \/ In("apple", title) THEN FallbackImage("iphone")
  ELSE IF In("headphone", title) \/ In("earbud", title) THEN FallbackImage("headphones")
  ELSE FallbackImage("default")

\* lines 92-96: offers.get raises on a list, and the price is then None
StoredPrice(data) ==
  IF data.offers = "list" THEN NONE
  ELSE IF data.offers = "dict" /\ Truthy(data.offers_price) THEN data.offers_price
  ELSE data.price

\* the record written back; data is the record loaded from the file
augment_and_save_product_flat(data) ==
  LET title == strip(Or(data.name, <<>>))
      price == StoredPrice(data)
      images == IF data.images = <<>> THEN <<pick_keyword_fallback_image(title)>>
                ELSE data.images
      priced == IF Truthy(price)
                THEN [data EXCEPT !.offers = "dict",
                                  !.offers_price = normalize_price_str(price),
                                  !.price = normalize_price_str(price)]
                ELSE data
  IN [priced EXCEPT !.has_images = TRUE, !.images = images]
augment_and_save_product(data) ==
  LET title == strip(Or(data.name, <<>>))
      price == StoredPrice(data)
      images == IF data.images = <<>> THEN <<pick_keyword_fallback_image(title)>>
                ELSE data.images
      priced == IF Truthy(price)
                THEN [data EXCEPT !.offers = "dict",
                                  !.offers_price = normalize_price_str(price)]
                ELSE data
  IN [priced EXCEPT !.has_images = TRUE, !.images = images]

(***************************************************************************)
(* The store and the operations on it                                      *)
(***************************************************************************)
\* json_path.write_text(json.dumps(data)): the file holds data and nothing else
write_text_append(old, data) ==
  IF old = NoRec THEN data ELSE [data EXCEPT !.images = old.images \o data.images]
write_text(old, data) == data

\* load_saved_product: {} when the file is missing or unreadable
load_saved_product(file) == IF file = NoRec THEN EmptyDict ELSE file

NoOutcome == Outcome(FALSE, NoRec, <<>>, "none")

\* what the last operation was, on what, and what it met
Op(name, u, slug, f1, f2, raised, again, parsed, meta, input) ==
  [name |-> name, url |-> u, slug |-> slug, f1 |-> f1, f2 |-> f2, raised |-> raised,
   again |-> again, parsed |-> parsed, meta |-> meta, input |-> input]
NoOp == Op("none", NoUrl, <<>>, FALSE, FALSE, FALSE, FALSE, NoOutcome, Meta(NONE, NONE), NoRec)

\* the URLs one run of the application is given
UrlSets == {{AmazonUrl, AmazonUrlRef}, {FlipkartUrl, ShopUrl}}
Slugs(U) == {_slugify(u) : u \in U}

\* the parts of the state that a specification leaves alone
PriceIdle == raw = <<>> /\ res = NONE /\ fn = "none"
StoreIdle ==
  /\ urls = {} /\ web = <<>> /\ imported = TRUE /\ files = <<>> /\ pages = <<>>
  /\ first = <<>> /\ saved = {} /\ op = NoOp
FnIdle == arg = <<>> /\ ret = <<>> /\ fnc = "none"
SerpIdle == cache = <<>> /\ net = 0 /\ apikey = TRUE /\ log = <<>>
Pc(phase, i, stage) == [phase |-> phase, i |-> i, stage |-> stage]
Locals(parsed, meta) == [parsed |-> parsed, meta |-> meta]
NoLocals == Locals(NoOutcome, Meta(NONE, NONE))
BatchIdle ==
  /\ batch = <<>> /\ pc = Pc("done", 0, "none") /\ cur = NoLocals /\ paths = <<>>
  /\ augmented = <<>> /\ index = {} /\ events = <<>> /\ last_products = <<>>
NonFnIdle == PriceIdle /\ StoreIdle /\ SerpIdle /\ BatchIdle
RestIdle == FnIdle /\ SerpIdle /\ BatchIdle

Init ==
  /\ RestIdle
  /\ urls \in UrlSets
  /\ web \in [urls -> PageIds]
  /\ imported \in BOOLEAN
  /\ files = [s \in Slugs(urls) |-> NoRec]
  /\ pages = [s \in Slugs(urls) |-> 0]
  /\ first = [u \in urls |-> NoRec]
  /\ saved = {}
  /\ op = NoOp
  /\ raw = <<>> /\ res = NONE /\ fn = "none"

\* every URL of a run, and what the two passes make of each page it may
\* serve: parse_product and the re-scout read nothing but the URL, the page,
\* the import flag and whether the fetch succeeds
AllUrls == UNION UrlSets
Parsed == [u \in AllUrls |-> [i \in PageIds |-> [h \in BOOLEAN |-> [f \in BOOLEAN |->
             parse_product(u, f, PageList[i], h)]]]]
Scouted == [i \in PageIds |-> [f \in BOOLEAN |->
              fetch_image_and_price_from_url(f, PageList[i])]]

\* lines 281-292 of parser.save_product: the writes, or none when it raised
Commit(u, f1, f2, slug, parsed, meta, sv, written) ==
  /\ op' = Op("save", u, slug, f1, f2, sv.raised, first[u] # NoRec, parsed, meta,
              files[slug])
  /\ IF sv.raised
     THEN UNCHANGED <<files, pages, first, saved>>
     ELSE /\ pages' = [pages EXCEPT ![slug] = web[u]]
          /\ files' = [files EXCEPT ![slug] = written]
          /\ first' = IF f2 /\ first[u] = NoRec
                      THEN [first EXCEPT ![u] = written]
                      ELSE first
          /\ saved' = saved \cup {u}
  /\ UNCHANGED <<urls, web, imported, raw, res, fn, restVars>>

\* lines 264-287: the merge, and the record as the file will hold it
Merge(u, f1, f2, slug, parsed, meta, sv) ==
  Commit(u, f1, f2, slug, parsed, meta, sv, write_text(files[slug], sv.data))

\* lines 256-263: the two passes; the re-scout runs only if parse_product returned
Passes(u, f1, f2, parsed) ==
  Merge(u, f1, f2 /\ ~parsed.raised, _slugify(u), parsed,
        Scouted[web[u]][f2 /\ ~parsed.raised],
        save_product(parsed, Scouted[web[u]][f2 /\ ~parsed.raised]))

\* parser.save_product(u).  f1, f2: the fetch of parse_product and the fetch of
\* the re-scout pass succeed.
SaveProduct(u, f1, f2) == Passes(u, f1, f2, Parsed[u][web[u]][imported][f1])

\* app.augment_and_save_product(json_path) on the record of identifier slug
Augment(slug) ==
  LET data == load_saved_product(files[slug])
  IN /\ op' = Op("augment", NoUrl, slug, FALSE, FALSE, FALSE, FALSE, NoOutcome,
                 Meta(NONE, NONE), files[slug])
     /\ files' = IF data = EmptyDict THEN files
                 ELSE [files EXCEPT ![slug] = augment_and_save_product(data)]
     /\ UNCHANGED <<urls, web, imported, pages, first, saved, raw, res, fn, restVars>>

Next ==
  \/ \E u \in urls, f1, f2 \in BOOLEAN : SaveProduct(u, f1, f2)
  \/ \E slug \in Slugs(urls) : Augment(slug)

Spec == Init /\ [][Next]_vars

(***************************************************************************)
(* The price specification: one text, normalised by one of the normalisers *)
(***************************************************************************)
PriceInit ==
  /\ raw \in Texts /\ res = NONE /\ fn = "none"
  /\ urls = {} /\ web = <<>> /\ imported = TRUE /\ files = <<>> /\ pages = <<>>
  /\ first = <<>> /\ saved = {} /\ op = NoOp
  /\ RestIdle

CallNormalizePriceStr ==
  /\ fn = "none"
  /\ fn' = "normalize_price_str"
  /\ res' = normalize_price_str(raw)
  /\ UNCHANGED raw
  /\ UNCHANGED <<storeVars, restVars>>

CallNormalizeNumStr ==
  /\ fn = "none"
  /\ fn' = "_normalize_num_str"
  /\ res' = _normalize_num_str(raw)
  /\ UNCHANGED raw
  /\ UNCHANGED <<storeVars, restVars>>

PriceNext == CallNormalizePriceStr \/ CallNormalizeNumStr

SpecPrice == PriceInit /\ [][PriceNext]_vars
(***************************************************************************)
(* Properties of the pipeline                                              *)
(***************************************************************************)
\* the last operation was save_product and parse_product had its page
SaveRan == op.name = "save" /\ op.f1
\* the last operation was save_product, both fetches succeeded, and it returned
SaveDone == op.name = "save" /\ op.f2 /\ ~op.raised

ExtractorOrder == <<"json_ld", "site", "fallback">>
IsPrefix(a, b) == Len(a) <= Len(b) /\ a = SubSeq(b, 1, Len(a))
RupeeDigitsCommas(t) ==
  Len(t) >= 2 /\ t[1] = RUPEE /\ \A i \in 2..Len(t) : t[i] \in DigitsComma

\* C1: a save_product of a URL whose two fetches succeed leaves under the
\* URL's identifier exactly the record that the first such save of that URL
\* wrote, whatever the file held in between; the records that exist are those
\* of the identifiers of the URLs saved, each with its page.
C1_IdempotentSave ==
  /\ SaveDone => files[op.slug] = first[op.url]
  /\ {s \in Slugs(urls) : files[s] # NoRec} = Slugs(saved)
  /\ \A s \in Slugs(urls) : (files[s] # NoRec) <=> (pages[s] # 0)

\* a second save of a URL that found another content under its identifier
C1_Witness ==
  SaveDone /\ op.again /\ op.input # NoRec /\ op.input # files[op.slug]

\* C2: parse_product calls the extractors in the order structured data, site
\* parser, generic fallback and takes the record of the last one it called;
\* it calls the site parser only if the structured data held no Product, and
\* the fallback only if the site parser raised or gave no record with a
\* source_url.
C2_ExtractorOrder ==
  SaveRan =>
    LET o == op.parsed
        pg == PageList[web[op.url]]
        ld == extract_json_ld(pg)
        sp == parse_for_domain(op.url.netloc, pg, op.url)
        siteYields == imported /\ sp # EmptyDict /\ sp.source_url # NoUrl
    IN /\ o.calls # <<>> /\ IsPrefix(o.calls, ExtractorOrder)
       /\ In("site", o.calls) => ld.status = "none"
       /\ In("fallback", o.calls) => In("site", o.calls) /\ ~siteYields
       /\ ld.status = "product" => o.calls = <<"json_ld">>
       /\ (ld.status = "none" /\ siteYields) => o.calls = <<"json_ld", "site">>
       /\ ~o.raised => o.stage = o.calls[Len(o.calls)]

\* the site parser gave nothing usable and the fallback's record was taken
C2_Witness ==
  SaveRan /\ imported /\ op.parsed.calls = ExtractorOrder /\ op.parsed.stage = "fallback"

\* C3: once parse_product has the page it does not raise, and when the
\* structured data yields no Product (also because a block is malformed) the
\* site parser is called next.
C3_FailuresContained ==
  SaveRan =>
    /\ ~op.parsed.raised
    /\ extract_json_ld(PageList[web[op.url]]).status # "product" => In("site", op.parsed.calls)

\* C4: a save_product that returns leaves the offers.price and the first
\* image of the extracted record as the extraction stage gave them, when it
\* gave them.
C4_MergeOnlyMissing ==
  (op.name = "save" /\ ~op.raised) =>
    LET before == op.parsed.data
        after == files[op.slug]
    IN /\ Truthy(before.offers_price) => after.offers_price = before.offers_price
       /\ before.images # <<>> => after.images[1] = before.images[1]

\* C5: after augment_and_save_product on a stored record, the record has at
\* least one image, and if it held a price under offers.price or price, its
\* offers.price is the rupee sign followed by digits and commas only.
C5_AugmentPostcondition ==
  (op.name = "augment" /\ op.input # NoRec) =>
    /\ Len(files[op.slug].images) >= 1
    /\ (Truthy(op.input.offers_price) \/ Truthy(op.input.price)) =>
         RupeeDigitsCommas(files[op.slug].offers_price)

\* C27: augment_and_save_product leaves name, description, reviews,
\* source_url and the top-level price of the record as they were, and a
\* non-empty images list too; when there is no record, or an empty one, it
\* writes nothing.
C27_AugmentFrame ==
  op.name = "augment" =>
    IF load_saved_product(op.input) = EmptyDict THEN files[op.slug] = op.input
    ELSE /\ files[op.slug].name = op.input.name
         /\ files[op.slug].description = op.input.description
         /\ files[op.slug].reviews = op.input.reviews
         /\ files[op.slug].source_url = op.input.source_url
         /\ files[op.slug].price = op.input.price
         /\ op.input.images # <<>> => files[op.slug].images = op.input.images

\* an augmentation changed the price under offers of a record that has
\* a name and reviews
C27_Witness ==
  /\ op.name = "augment" /\ op.input # NoRec
  /\ Truthy(op.input.name) /\ op.input.reviews # <<>>
  /\ files[op.slug].offers_price # op.input.offers_price

(***************************************************************************)
(* Properties of the price normalisers                                     *)
(***************************************************************************)
called == fn # "none"

\* the numeric amounts of a text: the matches of [\d,]+(?:\.\d+)? that hold a digit
Amounts(t) == SelectSeq(FindNums(t, 1), LAMBDA n : NumDigits(n) >= 1)
StrayCommas(t) == Len(FindNums(t, 1)) > Len(Amounts(t))

HasPriceAmount(t) == \E i \in 1..Len(Amounts(t)) : NumDigits(Amounts(t)[i]) >= 2
SingleAmount(t) == Len(Amounts(t)) = 1 /\ ~StrayCommas(t)
IsRange(t) == Len(Amounts(t)) >= 2 /\ ~StrayCommas(t)
OnlySingleDigits(t) ==
  /\ Len(Amounts(t)) >= 1
  /\ ~StrayCommas(t)
  /\ \A i \in 1..Len(Amounts(t)) : NumDigits(Amounts(t)[i]) < 2

Has(t, S) == \E i \in 1..Len(t) : t[i] \in S
Blank(t) == t = NONE \/ strip(t) = <<>>

\* the least amount of a range of whole amounts, in canonical form
WholeAmounts(t) == \A i \in 1..Len(Amounts(t)) : is_integer(Amounts(t)[i])
LeastWhole(t) ==
  Min({ToNat(IntPart(Amounts(t)[i])) : i \in 1..Len(Amounts(t))})
Canonical(n) == <<RUPEE>> \o Grouped(NatDigits(n))

\* C6: every string a normaliser returns for an input that holds a numeric
\* amount starts with the rupee sign and holds no whitespace.
C6_RupeePrefixNoWhitespace ==
  (called /\ HasPriceAmount(raw)) =>
    (res # NONE /\ res # <<>> /\ res[1] = RUPEE /\ ~Has(res, Whitespace))

C8_RangeMinimum ==
  (called /\ IsRange(raw) /\ WholeAmounts(raw)) => res = Canonical(LeastWhole(raw))

\* C9: a text whose only numbers are single digits comes back unchanged, with
\* no currency prefix added.
C9_SingleDigitRejected ==
  (called /\ OnlySingleDigits(raw) /\ ~Has(raw, {RUPEE, "Rs", "INR"} \cup Qualifiers)) =>
    (res = strip(raw) /\ ~Has(res, {RUPEE}))

C24_BareAmountRegrouped ==
  (fn = "normalize_price_str" /\ ~Has(raw, {RUPEE, "Rs", "INR"})
     /\ SingleAmount(raw) /\ WholeAmounts(raw) /\ HasPriceAmount(raw)) =>
    /\ res = Canonical(LeastWhole(raw))
    /\ res = _normalize_num_str(raw)

(***************************************************************************)
(* The scorer and the choice of the canonical price, on their own: a call  *)
(* of _score_candidate on the text around one match, and the choice among  *)
(* the candidates that a list of places of a page gives                    *)
(***************************************************************************)
R5 == <<RUPEE, "5">>

MaxCtx == 3
MaxCands == 3

CtxWords == {"price", "offer", "you", " ", "pay", "our", "special"}
Ctx == UNION {[1..n -> CtxWords] : n \in 0..MaxCtx}
Matched == {R5, Rs1299}
Tails == {<<>>, <<" ", "9", "9", "9", "9">>, <<" ", "offers">>}
Bases == {ContextBase, JsonLdBase, SelectorBase}

\* a place of the page where PRICE_REGEX matches: its text and the base of its kind
Place(text, base) == [text |-> text, base |-> base]
ScorePlaces == {Place(c \o m \o t, b) : c \in Ctx, m \in Matched, t \in Tails, b \in Bases}
SelectPlaces ==
  { Place(R999, SelectorBase), Place(R999, ContextBase), Place(R5, ContextBase),
    Place(<<"price", " ">> \o R5, ContextBase),
    Place(<<"our", " ", "price", " ">> \o R5 \o <<" ", "special", " ", "price", " ", "deal">>,
          ContextBase),
    Place(<<"price", " ">> \o Rs1299, JsonLdBase) }

\* m.group(0) of the first match of PRICE_REGEX in the text of the place
Match(d) == Cut(d.text, PriceMatches(d.text, 1)[1])

\* lines 178-179, 186-187, 195-196: the candidate of a place
Scored(d) == Candidate(_normalize_num_str(Match(d)), _score_candidate(d.text, d.base))

ScoreInit ==
  /\ arg \in {<<d>> : d \in ScorePlaces}
            \cup UNION {[1..n -> SelectPlaces] : n \in 2..MaxCands}
  /\ ret = <<>> /\ fnc = "none"
  /\ NonFnIdle

CallScoreCandidate ==
  /\ fnc = "none" /\ Len(arg) = 1
  /\ fnc' = "_score_candidate"
  /\ ret' = _score_candidate(arg[1].text, arg[1].base)
  /\ UNCHANGED <<arg, nonFnVars>>

\* lines 199-217 on the candidates of the places
SelectPrice ==
  /\ fnc = "none"
  /\ fnc' = "select"
  /\ ret' = BestPrice([i \in 1..Len(arg) |-> Scored(arg[i])])
  /\ UNCHANGED <<arg, nonFnVars>>

ScoreNext == CallScoreCandidate \/ SelectPrice

SpecScore == ScoreInit /\ [][ScoreNext]_vars

(***************************************************************************)
(* Properties of the scorer and of the choice of the canonical price       *)
(***************************************************************************)
\* the candidates of one normalized value: where, the greatest score, how many
GroupOf(k) == {i \in 1..Len(arg) : Scored(arg[i]).norm = k}
GroupScore(k) == Max({Scored(arg[i]).score : i \in GroupOf(k)})
GroupCount(k) == Cardinality(GroupOf(k))
GroupKeys == {Scored(arg[i]).norm : i \in 1..Len(arg)}
LexGreater(a, b) ==
  \/ GroupScore(a) > GroupScore(b)
  \/ GroupScore(a) = GroupScore(b) /\ GroupCount(a) > GroupCount(b)
  \/ GroupScore(a) = GroupScore(b) /\ GroupCount(a) = GroupCount(b)
     /\ ~FloatLeq(Magnitude(a), Magnitude(b),
                 Max({Len(FracPart(Magnitude(a))), Len(FracPart(Magnitude(b)))}))
FromBase(k, b) == \E i \in 1..Len(arg) : Match(arg[i]) = k /\ arg[i].base = b
OnlyBase(k, b) == \A i \in 1..Len(arg) : Match(arg[i]) = k => arg[i].base = b

\* C11 as stated: with a candidate "Rupee 999" scored from base 4 and the
\* candidates "Rupee 5" all scored from base 0, "Rupee 5" is never the price
\* selected, however often it occurs.
C11_Original ==
  (fnc = "select" /\ FromBase(R999, SelectorBase)
     /\ FromBase(R5, ContextBase) /\ OnlyBase(R5, ContextBase))
  => ret # R5

\* C11, amended: the price selected is a candidate value that no other value
\* exceeds in (greatest score, occurrence count, numeric magnitude), compared
\* lexicographically; so "Rupee 999" is selected over "Rupee 5" whenever the
\* greatest score of "Rupee 999" exceeds that of "Rupee 5", however often
\* "Rupee 5" occurs.
C11_LexicographicChoice ==
  fnc = "select" =>
    /\ ret \in GroupKeys
    /\ \A k \in GroupKeys \ {ret} : ~LexGreater(k, ret)
    /\ ({R5, R999} \subseteq GroupKeys /\ GroupScore(R999) > GroupScore(R5)) => ret # R5

C11_Witness ==
  /\ fnc = "select" /\ ret = R999
  /\ FromBase(R999, SelectorBase) /\ GroupCount(R5) >= 2
  /\ GroupScore(R999) > GroupScore(R5)

\* the keywords of a tuple that the text holds
Present(kws, t) == {k \in 1..Len(kws) : KwIn(kws[k], t)}

\* C12: the score is base, + 2 for each strong keyword in the text, + 1 for
\* each weak currency signal in the text, + 1 if the candidate (the amount
\* matched) has 4 digits or more; and it is never below base.
C12_ScoreFormula ==
  fnc = "_score_candidate" =>
    /\ ret = arg[1].base
             + StrongBonus * Cardinality(Present(StrongKeywords, arg[1].text))
             + WeakBonus * Cardinality(Present(WeakKeywords, arg[1].text))
             + (IF NumDigits(Match(arg[1])) >= LongNumber THEN 1 ELSE 0)
    /\ ret >= arg[1].base

(***************************************************************************)
(* extract_json_ld on its own: documents whose JSON-LD blocks hold values  *)
(* nested in list, @graph and mainEntity wrappers                          *)
(***************************************************************************)
MaxDepth == 2

Wrappers == {"list", "graph", "main"}
JLeaves == {JProduct(Title, "absent", NONE), JProduct(<<"y">>, "dict", T499), JOther, JScalar}
RECURSIVE JValues(_)
JValues(n) ==
  IF n = 0 THEN JLeaves
  ELSE JLeaves \cup {JWrap(k, <<v>>) : k \in Wrappers, v \in JValues(n - 1)}

LdScripts ==
  {Script("json", v, <<>>, <<>>, <<>>) : v \in JValues(MaxDepth)}
    \cup {Script("bad", JBad, <<JBad>>, <<>>, <<>>)}
LdPages ==
  {Page(ss, NONE, NONE, NONE, <<>>, NONE, NONE, NONE, <<>>) :
     ss \in UNION {[1..n -> LdScripts] : n \in 1..2}}

LdInit ==
  /\ arg \in LdPages
  /\ ret = <<>> /\ fnc = "none"
  /\ NonFnIdle

CallExtractJsonLd ==
  /\ fnc = "none"
  /\ fnc' = "extract_json_ld"
  /\ ret' = extract_json_ld(arg)
  /\ UNCHANGED <<arg, nonFnVars>>

LdNext == CallExtractJsonLd

SpecLd == LdInit /\ [][LdNext]_vars

\* the Product objects of a parsed value, under any nesting of the wrappers
RECURSIVE DeepProducts(_)
DeepProducts(v) ==
  IF IsProduct(v) THEN {v.rec}
  ELSE IF v.k \in Wrappers
       THEN UNION {DeepProducts(v.items[i]) : i \in 1..Len(v.items)}
  ELSE {}
PageProducts(pg) ==
  UNION {DeepProducts(pg.scripts[i].val) :
           i \in {j \in 1..Len(pg.scripts) : pg.scripts[j].kind = "json"}}

WellFormed(pg) == \A i \in 1..Len(pg.scripts) : pg.scripts[i].kind = "json"

\* C13: on a document whose JSON-LD blocks all parse, extract_json_ld returns
\* a Product object, unchanged, whenever a block holds one at any depth of
\* list, @graph or mainEntity wrappers, and returns None when no block holds
\* one.
C13_ProductAtAnyDepth ==
  (fnc = "extract_json_ld" /\ WellFormed(arg)) =>
    IF PageProducts(arg) # {}
    THEN ret.status = "product" /\ ret.rec \in PageProducts(arg)
    ELSE ret = NotFound

(***************************************************************************)
(* parse_product on documents without JSON-LD: the scripts are plain ones, *)
(* which only the fallback reads for reviews                               *)
(***************************************************************************)
Letters == << <<"a">>, <<"b">>, <<"c">>, <<"d">>, <<"e">> >>
FbScripts ==
  {Script("plain", JOther, <<>>, <<>>, rv) :
     rv \in {<< <<"good">> >>, <<NONE, <<>>, <<"good">> >>, <<JObject>>, Letters}}
FbPages ==
  {Page(ss, t, d, pn, b, NONE, NONE, NONE, rs) :
     ss \in UNION {[1..n -> FbScripts] : n \in 0..2},
     t \in {NONE, Title}, d \in {NONE, <<"x">>}, pn \in {NONE, R499},
     b \in {<<>>, <<"Rs", " ", "9", "9", "9">>},
     rs \in {<<>>, << <<"good">>, <<"good">>, <<"bad">> >>}}

FbInit ==
  /\ arg \in [page : FbPages, url : {ShopUrl, FlipkartUrl}, hasSite : BOOLEAN]
  /\ ret = <<>> /\ fnc = "none"
  /\ NonFnIdle

CallParseProduct ==
  /\ fnc = "none"
  /\ fnc' = "parse_product"
  /\ ret' = parse_product(arg.url, TRUE, arg.page, arg.hasSite)
  /\ UNCHANGED <<arg, nonFnVars>>

FbNext == CallParseProduct

SpecFallback == FbInit /\ [][FbNext]_vars

\* C14: on a document without structured data, for a domain that
\* parse_for_domain does not recognize, parse_product takes the record of the
\* generic fallback and the fallback does not raise; a field it cannot
\* resolve is empty: name "Unknown", description "", price None, reviews [].
C14_FallbackNeverRaises ==
  (fnc = "parse_product" /\ extract_json_ld(arg.page) = NotFound
     /\ parse_for_domain(arg.url.netloc, arg.page, arg.url) = EmptyDict) =>
    /\ ~ret.raised /\ ret.stage = "fallback"
    /\ arg.page.title = NONE => ret.data.name = <<"Unknown">>
    /\ arg.page.desc = NONE => ret.data.description = <<>>
    /\ (arg.page.priceNode = NONE /\ arg.page.body = <<>>) => ret.data.offers_price = NONE
    /\ FallbackReviews(arg.page) = <<>> => ret.data.reviews = <<>>

(***************************************************************************)
(* parser.save_product on one URL, up to the record it hands to the writes *)
(***************************************************************************)
Repeated == << <<"a">>, <<"a">>, <<"b">>, <<"c">>, <<"d">>, <<"e">>, <<"f">> >>
SaveScripts ==
  { <<>>,
    <<Script("json", JProduct(Title, "dict", T499), <<>>, <<"offers", "price">> \o T499, <<>>)>>,
    <<Script("json", JReviewed(Title, Repeated, ShopUrl), <<>>, <<"reviews">>, <<>>)>>,
    <<Script("plain", JOther, <<>>, <<>>, << <<"good">>, <<"a">> >>)>> }
SavePages ==
  {Page(ss, Title, NONE, pn, <<>>, og, NONE, ld, rs) :
     ss \in SaveScripts, pn \in {NONE, R499}, og \in {NONE, Img("og")},
     ld \in {NONE, Img("landing"), BadSrcset},
     rs \in {<<>>, << <<"good">>, <<"good">>, <<"bad">> >>, Repeated}}

SaveInit ==
  /\ arg \in [page : SavePages, url : {AmazonUrl, ShopUrl}, hasSite : BOOLEAN,
              f2 : BOOLEAN]
  /\ ret = <<>> /\ fnc = "none"
  /\ NonFnIdle

\* lines 256-279: the two passes and the merge
SaveWith(parsed, meta) ==
  /\ ret' = [parsed |-> parsed, meta |-> meta, saved |-> save_product(parsed, meta)]
  /\ UNCHANGED <<arg, nonFnVars>>
CallSaveProduct ==
  /\ fnc = "none"
  /\ fnc' = "save_product"
  /\ SaveWith(parse_product(arg.url, TRUE, arg.page, arg.hasSite),
              fetch_image_and_price_from_url(arg.f2, arg.page))

SaveNext == CallSaveProduct

SpecSave == SaveInit /\ [][SaveNext]_vars

\* the call returned and the record is handed to the writes
Persisted == fnc = "save_product" /\ ~ret.saved.raised
NoRepeat(rs) == \A i, j \in 1..Len(rs) : rs[i] = rs[j] => i = j
\* the texts of rs are in the order in which each first occurs in texts
InOrderOf(rs, texts) ==
  LET At1(r) == Min({n \in 1..Len(texts) : texts[n] = r})
      Known == {i \in 1..Len(rs) : \E n \in 1..Len(texts) : texts[n] = rs[i]}
  IN \A i, j \in Known : i < j => At1(rs[i]) < At1(rs[j])

\* C22: the record that save_product persists has at most 5 reviews, no
\* review twice, and the reviews taken from the review elements of the page
\* stand in the order in which each first occurs there, whichever extractor
\* produced the record.
C22_ReviewsCappedUnique ==
  Persisted =>
    /\ Len(ret.saved.data.reviews) <= ReviewLimit
    /\ NoRepeat(ret.saved.data.reviews)
    /\ InOrderOf(ret.saved.data.reviews, Map(arg.page.reviews, strip))

\* C23: the record that save_product persists carries as source_url the URL
\* that save_product was given, whichever extractor produced the record and
\* whatever source_url the extractor's record had.
C23_SourceUrlIsArgument ==
  Persisted => ret.saved.data.source_url = arg.url

\* a structured-data record that came with another source_url was persisted
C23_Witness ==
  /\ Persisted /\ ret.parsed.stage = "json_ld"
  /\ \E i \in 1..Len(arg.page.scripts) :
       arg.page.scripts[i].val.rec.source_url \notin {NoUrl, arg.url}

\* the re-scout pass failed: its request did, or its parsing raised
ScoutFailed == ~arg.f2 \/ ScoutRaises(arg.page)

MaxPath == 3

PathChars == {"/", "_", "b"}
\* a path of 80 characters, and paths that differ from it at or after the 80th
Pad == <<"/">> \o [i \in 1..(SlugPathLen - 2) |-> "x"]
LongPaths == {Pad \o <<"x">>, Pad \o <<"y">>, Pad \o <<"x", "1">>, Pad \o <<"x", "2">>}
SlugPaths == {<<"/">> \o p : p \in UNION {[1..n -> PathChars] : n \in 0..MaxPath}} \cup LongPaths
SlugNetlocs == {<<"a">>, <<"a", ".", "b">>}

SlugInit ==
  /\ arg \in {<<Url(n1, p1, <<>>), Url(n2, p2, q)>> :
                n1 \in SlugNetlocs, p1 \in SlugPaths, n2 \in SlugNetlocs, p2 \in SlugPaths,
                q \in {<<>>, <<"q">>}}
  /\ ret = <<>> /\ fnc = "none"
  /\ NonFnIdle

CallSlugify ==
  /\ fnc = "none"
  /\ fnc' = "_slugify"
  /\ ret' = <<_slugify(arg[1]), _slugify(arg[2])>>
  /\ UNCHANGED <<arg, nonFnVars>>

SlugNext == CallSlugify

SpecSlug == SlugInit /\ [][SlugNext]_vars

SameDomainPath == arg[1].netloc = arg[2].netloc /\ arg[1].path = arg[2].path
\* neither path holds an underscore or is longer than what the identifier keeps
PlainPaths ==
  \A k \in 1..2 : Len(arg[k].path) <= SlugPathLen
                   /\ \A i \in 1..Len(arg[k].path) : arg[k].path[i] # "_"

\* C15 as stated: two URLs whose (domain, path) pairs differ get different
\* identifiers.
C15_Original ==
  (fnc = "_slugify" /\ ~SameDomainPath) => ret[1] # ret[2]

\* C15, amended: two URLs with the same (domain, path) get the same
\* identifier, whatever their queries; two URLs on one domain whose paths
\* differ, hold no underscore and are at most 80 characters long get
\* different identifiers.
C15_InjectiveOnPlainPaths ==
  fnc = "_slugify" =>
    /\ SameDomainPath => ret[1] = ret[2]
    /\ (arg[1].netloc = arg[2].netloc /\ arg[1].path # arg[2].path /\ PlainPaths)
         => ret[1] # ret[2]

\* two paths of the full length that differ in their last character only
C15_Witness ==
  /\ fnc = "_slugify" /\ arg[1].netloc = arg[2].netloc /\ PlainPaths
  /\ Len(arg[1].path) = SlugPathLen /\ Len(arg[2].path) = SlugPathLen
  /\ arg[1].path # arg[2].path /\ ret[1] # ret[2]

(***************************************************************************)
(* serp_search._is_product_page.  A URL is the sequence of its characters. *)
(***************************************************************************)
UpperCase ==
  <<"A", "B", "C", "D", "E", "F", "G", "H", "I", "J", "K", "L", "M",
    "N", "O", "P", "Q", "R", "S", "T", "U", "V", "W", "X", "Y", "Z">>
LowerCase ==
  <<"a", "b", "c", "d", "e", "f", "g", "h", "i", "j", "k", "l", "m",
    "n", "o", "p", "q", "r", "s", "t", "u", "v", "w", "x", "y", "z">>
Range(f) == {f[i] : i \in DOMAIN f}
LowerChar(c) ==
  IF c \in Range(UpperCase)
  THEN LowerCase[CHOOSE i \in DOMAIN UpperCase : UpperCase[i] = c]
  ELSE c
\* str.lower
lower(s) == [i \in 1..Len(s) |-> LowerChar(s[i])]

\* pattern in url
Contains(s, pat) ==
  \E i \in 1..(Len(s) - Len(pat) + 1) : SubSeq(s, i, i + Len(pat) - 1) = pat
ContainsAny(s, pats) == \E k \in DOMAIN pats : Contains(s, pats[k])

exclude_patterns ==
  << <<"/", "s", "?", "k", "=">>,
     <<"/", "s", "/">>,
     <<"/", "s", "e", "a", "r", "c", "h">>,
     <<"/", "b", "r", "o", "w", "s", "e">>,
     <<"/", "c", "a", "t", "e", "g", "o", "r", "y">>,
     <<"/", "c", "a", "t", "e", "g", "o", "r", "i", "e", "s">>,
     <<"/", "c", "o", "l", "l", "e", "c", "t", "i", "o", "n", "s">>,
     <<"/", "s", "h", "o", "p">>,
     <<"?", "s", "=">>,
     <<"s", "e", "a", "r", "c", "h", "?">>,
     <<"r", "e", "s", "u", "l", "t", "s">>,
     <<"/", "f", "i", "l", "t", "e", "r">>,
     <<"/", "s", "o", "r", "t">>,
     <<"b", "e", "s", "t", "s", "e", "l", "l", "e", "r", "s">>,
     <<"n", "e", "w", "-", "a", "r", "r", "i", "v", "a", "l", "s">>,
     <<"/", "a", "l", "l", "-", "p", "r", "o", "d", "u", "c", "t", "s">>,
     <<"/", "s", "p", "e", "c", "i", "a", "l", "s">>,
     <<"/", "b", "/">>,
     <<"/", "g", "p", "/", "b", "e", "s", "t", "s", "e", "l", "l", "e", "r", "s">>,
     <<"/", "d", "e", "a", "l", "s">>,
     <<"?", "n", "o", "d", "e", "=">>,
     <<"&", "n", "o", "d", "e", "=">>,
     <<"/", "p", "a", "g", "e">> >>

include_patterns ==
  << <<"/", "d", "p", "/">>,
     <<"/", "p", "r", "o", "d", "u", "c", "t", "/">>,
     <<"/", "p", "/">>,
     <<"/", "i", "t", "e", "m", "/">>,
     <<"/", "p", "r", "o", "d", "u", "c", "t", "s", "/">> >>

AmazonSites == << <<"a", "m", "a", "z", "o", "n", ".", "i", "n", "/">>, <<"a", "m", "a", "z", "o", "n", ".", "c", "o", "m", "/">> >>
FlipkartSites == << <<"f", "l", "i", "p", "k", "a", "r", "t", ".", "c", "o", "m">>, <<"f", "l", "i", "p", "k", "a", "r", "t", ".", "i", "n">> >>
MyntraSite == <<"m", "y", "n", "t", "r", "a", ".", "c", "o", "m">>
NykaaSite == <<"n", "y", "k", "a", "a", ".", "c", "o", "m">>
SnapdealSite == <<"s", "n", "a", "p", "d", "e", "a", "l", ".", "c", "o", "m">>
ShortProduct == <<"/", "p", "/">>
ProductSegment == <<"/", "p", "r", "o", "d", "u", "c", "t", "/">>

\* re.search(r'/[Bb]0[A-Z0-9]{7,}', s): a slash, B or b, 0, and then at least
\* ItemIdTail characters of the class cls
ItemIdTail == 7
ItemIdAt(s, i, cls) ==
  /\ i + 2 + ItemIdTail <= Len(s)
  /\ s[i] = "/" /\ s[i + 1] \in {"B", "b"} /\ s[i + 2] = "0"
  /\ \A j \in 1..ItemIdTail : s[i + 2 + j] \in cls
ItemId(s, cls) == \E i \in 1..Len(s) : ItemIdAt(s, i, cls)
UpperOrDigit == Range(UpperCase) \cup Digits

_is_product_page(url) ==
  LET url_lower == lower(url)
  IN IF ContainsAny(url_lower, exclude_patterns) THEN FALSE
     ELSE IF ContainsAny(url_lower, include_patterns) THEN TRUE
     \* line 110: the pattern is applied to the URL in lower case
     ELSE IF ContainsAny(url_lower, AmazonSites) THEN ItemId(url_lower, UpperOrDigit)
     ELSE IF ContainsAny(url_lower, FlipkartSites)
          THEN Contains(url_lower, ShortProduct) \/ Contains(url_lower, ProductSegment)
     ELSE IF Contains(url_lower, MyntraSite)
          THEN Contains(url_lower, ShortProduct) \/ Contains(url_lower, ProductSegment)
     ELSE IF Contains(url_lower, NykaaSite)
          THEN Contains(url_lower, ShortProduct) \/ Contains(url_lower, ProductSegment)
     ELSE IF Contains(url_lower, SnapdealSite) THEN Contains(url_lower, ProductSegment)
     ELSE FALSE

MaxSegs == 2

Hosts == { <<"h", "t", "t", "p", "s", ":", "/", "/", "w", "w", "w", ".", "a", "m", "a", "z", "o", "n", ".", "i", "n">>,
           <<"h", "t", "t", "p", "s", ":", "/", "/", "w", "w", "w", ".", "f", "l", "i", "p", "k", "a", "r", "t", ".", "c", "o", "m">>,
           <<"h", "t", "t", "p", "s", ":", "/", "/", "s", "h", "o", "p", ".", "e", "x", "a", "m", "p", "l", "e">> }
Segs ==
  { <<"/", "f", "o", "o">>,
    <<"/", "d", "p", "/", "B", "0", "0", "1", "X", "Y", "Z">>,
    <<"/", "s", "?", "k", "=", "f", "o", "o">>,
    <<"/", "p", "r", "o", "d", "u", "c", "t">>,
    <<"/", "p", "/", "i", "t", "m", "1", "2", "3">>,
    <<"/", "B", "0", "F", "Q", "F", "Y", "X", "C", "C", "4">>,
    <<"/", "b", "0", "1", "2", "3", "4", "5", "6", "7", "8">>,
    <<"/", "B", "0", "F", "Q">>,
    <<"/", "p", "a", "g", "e">>,
    <<"/", "S", "e", "a", "r", "c", "h">>,
    <<"/", "i", "t", "e", "m", "/", "1">> }
FilterUrls == {h \o Concat(ss) : h \in Hosts, ss \in UNION {[1..n -> Segs] : n \in 0..MaxSegs}}

\* the URLs of the scenario
Scenario1 == <<"h", "t", "t", "p", "s", ":", "/", "/", "w", "w", "w", ".", "a", "m", "a", "z", "o", "n", ".", "i", "n", "/", "f", "o", "o", "/", "d", "p", "/", "B", "0", "0", "1", "X", "Y", "Z">>
Scenario2 == <<"h", "t", "t", "p", "s", ":", "/", "/", "w", "w", "w", ".", "a", "m", "a", "z", "o", "n", ".", "i", "n", "/", "s", "?", "k", "=", "f", "o", "o">>
Scenario3 == <<"h", "t", "t", "p", "s", ":", "/", "/", "w", "w", "w", ".", "f", "l", "i", "p", "k", "a", "r", "t", ".", "c", "o", "m", "/", "p", "r", "o", "d", "u", "c", "t", "/", "p", "/", "i", "t", "m", "1", "2", "3">>

FilterInit ==
  /\ arg \in FilterUrls
  /\ ret = <<>> /\ fnc = "none"
  /\ NonFnIdle

CallIsProductPage ==
  /\ fnc = "none"
  /\ fnc' = "_is_product_page"
  /\ ret' = _is_product_page(arg)
  /\ UNCHANGED <<arg, nonFnVars>>

FilterNext == CallIsProductPage

SpecFilter == FilterInit /\ [][FilterNext]_vars

\* B0 and at least 7 letters or digits, as a path segment of an Amazon URL
Alphanumeric == Range(UpperCase) \cup Range(LowerCase) \cup Digits
AmazonItemId(url) == ContainsAny(lower(url), AmazonSites) /\ ItemId(url, Alphanumeric)

\* C16: a URL with a search, browse, category or pagination marker is
\* rejected whatever else it holds; any other URL is accepted exactly when it
\* holds a product-detail segment (/dp/, /product/, /p/, /item/, /products/)
\* or, on Amazon, an item id B0 followed by at least 7 letters or digits.
\* Of the three URLs of the scenario the first and third are kept.
C16_ProductPageFilter ==
  fnc = "_is_product_page" =>
    /\ ret = IF ContainsAny(lower(arg), exclude_patterns) THEN FALSE
             ELSE ContainsAny(lower(arg), include_patterns) \/ AmazonItemId(arg)
    /\ arg = Scenario1 => ret
    /\ arg = Scenario2 => ~ret
    /\ arg = Scenario3 => ret

(***************************************************************************)
(* serp_search.serp_search and its cache                                   *)
(***************************************************************************)
MaxCalls == 2

Queries == {<<"q1">>, <<"q2">>}
AmazonIn == <<"amazon.in">>
FlipkartCom == <<"flipkart.com">>
\* one filter string that holds a comma
AmazonAndFlipkart == <<"amazon.in", ",", "flipkart.com">>
FilterLists ==
  {<<>>, <<AmazonIn, FlipkartCom>>, <<FlipkartCom, AmazonIn>>, <<AmazonAndFlipkart>>}
Nums == {1, 2}
\* the links of organic_results in a response of SerpAPI
Responses == {<<Scenario1, Scenario3>>, <<Scenario3, Scenario2, Scenario1, Scenario3>>}
HttpOk == 200
\* in place of a status: requests.get raised, there is no response
NoResponse == 0
Statuses == {HttpOk, 500, NoResponse}

\* ','.join(site_filters)
RECURSIVE JoinComma(_)
JoinComma(fs) ==
  IF fs = <<>> THEN <<>>
  ELSE IF Len(fs) = 1 THEN fs[1]
  ELSE fs[1] \o <<",">> \o JoinComma(Tail(fs))

\* line 150: f"q:{query}|sites:{...}|n:{num}"
query_key(query, site_filters, num) ==
  <<"q:">> \o query \o <<"|sites:">> \o JoinComma(site_filters) \o <<"|n:">> \o <<ToString(num)>>

\* lines 187-192: the first occurrence of each URL, in order
RECURSIVE Dedupe(_, _)
Dedupe(us, out) ==
  IF us = <<>> THEN out
  ELSE IF \E i \in 1..Len(out) : out[i] = us[1] THEN Dedupe(Tail(us), out)
  ELSE Dedupe(Tail(us), Append(out, us[1]))

\* lines 176-195
unique_urls(links, num) == Take(Dedupe(SelectSeq(links, _is_product_page), <<>>), num)

\* what each response leaves for each count
Kept == [links \in Responses |-> [num \in Nums |-> unique_urls(links, num)]]

\* lines 200-201: cache[query_key] = unique_urls; save_cache(cache)
Store_alone(c, key, us) == key :> us
Store(c, key, us) == (key :> us) @@ c

\* a call and how it ended: "nokey" and "http" (RuntimeError), "network" (the
\* exception of requests.get), "hit" (the cached list returned), "fetched"
\* (the list of a response returned)
Call(query, site_filters, num, how, r) ==
  [query |-> query, site_filters |-> site_filters, num |-> num, how |-> how, ret |-> r]

SerpInit ==
  /\ cache = <<>> /\ net = 0 /\ apikey \in BOOLEAN /\ log = <<>>
  /\ FnIdle /\ PriceIdle /\ StoreIdle /\ BatchIdle

\* status and links: what SerpAPI answers if it is asked
serp_search(query, site_filters, num, status, links) ==
  /\ Len(log) < MaxCalls
  /\ IF ~apikey
     THEN /\ log' = Append(log, Call(query, site_filters, num, "nokey", <<>>))
          /\ UNCHANGED <<cache, net>>
     ELSE IF query_key(query, site_filters, num) \in DOMAIN cache
     THEN /\ log' = Append(log, Call(query, site_filters, num, "hit",
                                     cache[query_key(query, site_filters, num)]))
          /\ UNCHANGED <<cache, net>>
     ELSE /\ net' = net + 1
          /\ IF status # HttpOk
             THEN /\ log' = Append(log, Call(query, site_filters, num,
                                             IF status = NoResponse THEN "network" ELSE "http",
                                             <<>>))
                  /\ UNCHANGED cache
             ELSE /\ cache' = Store(cache, query_key(query, site_filters, num),
                                    Kept[links][num])
                  /\ log' = Append(log, Call(query, site_filters, num, "fetched",
                                             Kept[links][num]))
  /\ UNCHANGED <<apikey, priceVars, storeVars, fnVars, batchVars>>

SerpNext ==
  \E query \in Queries, site_filters \in FilterLists, num \in Nums,
     status \in Statuses, links \in Responses :
    serp_search(query, site_filters, num, status, links)

SpecSerp == SerpInit /\ [][SerpNext]_vars

Returned(c) == c.how \in {"hit", "fetched"}
SameSearch(c, d) ==
  /\ c.query = d.query /\ c.num = d.num
  /\ Range(c.site_filters) = Range(d.site_filters)

\* C17: once a call has returned, every later call with the same query, the
\* same set of filters and the same count returns the same list from the
\* cache, without a request; and a call is answered from the cache only if
\* an earlier call with the same query, set of filters and count returned.
C17_CacheReuse ==
  \A j \in 1..Len(log) :
    /\ \A i \in 1..(j - 1) :
         (Returned(log[i]) /\ SameSearch(log[i], log[j]))
           => (log[j].how = "hit" /\ log[j].ret = log[i].ret)
    /\ log[j].how = "hit"
         => \E i \in 1..(j - 1) : Returned(log[i]) /\ SameSearch(log[i], log[j])

\* us is what a search for num results keeps of the links of a response:
\* the product pages among them, each once, in the order of the response,
\* cut after num
ProductLinks == [links \in Responses |-> SelectSeq(links, _is_product_page)]
KeptOf(us, links, num) ==
  LET pp == ProductLinks[links]
      FirstAt(u) == Min({n \in 1..Len(pp) : pp[n] = u})
  IN /\ Len(us) <= num /\ NoRepeat(us)
     /\ \A i \in 1..Len(us) : \E n \in 1..Len(pp) : pp[n] = us[i]
     /\ \A i, j \in 1..Len(us) : i < j => FirstAt(us[i]) < FirstAt(us[j])
     /\ \A n \in 1..Len(pp) :
          (\A i \in 1..Len(us) : us[i] # pp[n]) =>
            /\ Len(us) = num
            /\ \A i \in 1..Len(us) : FirstAt(us[i]) < n

\* the step is a call of serp_search; last is the call, key its key
CacheStep(last, key) ==
  IF last.how # "fetched" THEN cache' = cache
  ELSE /\ key \notin DOMAIN cache
       /\ DOMAIN cache' = DOMAIN cache \cup {key}
       /\ \A k \in DOMAIN cache : cache'[k] = cache[k]
       /\ \E links \in Responses : KeptOf(cache'[key], links, last.num)

BatchLists ==
  {<<AmazonUrl, AmazonUrlRef>>, <<FlipkartUrl, ShopUrl>>, <<ShopUrl, AmazonUrl, FlipkartUrl>>}
\* the pages served: a Product, a Product whose offers is a list, a
\* malformed first block, and a page without structured data
BatchPageIds == {2, 3, 4, 7}

\* the steps of the body of each loop, in the order of the code
LoopOne == <<"fetch", "extract", "rescout", "write">>
LoopTwo_index_first == <<"upsert", "augment">>
LoopTwo == <<"augment", "upsert">>

Ev(ev, k) == [ev |-> ev, k |-> k]
At(phase, stage) == pc.phase = phase /\ pc.stage = stage
Position(loop, stage) == CHOOSE j \in 1..Len(loop) : loop[j] = stage

\* line 339: the second loop runs over the np paths saved
StartAugment(np) ==
  IF np > 0 THEN Pc("augment", 1, LoopTwo[1]) ELSE Pc("display", 0, "display")

\* lines 325-335: after entry i of n, np paths saved so far; failed says that
\* save_product raised (except Exception: continue)
AfterSave_abort(i, n, np, failed) ==
  IF i < n /\ ~failed THEN Pc("save", i + 1, LoopOne[1]) ELSE StartAugment(np)
AfterSave(i, n, np, failed) ==
  IF i < n THEN Pc("save", i + 1, LoopOne[1]) ELSE StartAugment(np)

\* fetcher.py:57-60, 235: fetch_html raised, and so parse_product and save_product
OnFetchFailed_rescout(i, n, np) == Pc("save", i, "rescout")
OnFetchFailed(i, n, np) == AfterSave(i, n, np, TRUE)

\* lines 339-351: after path j of np
AfterAugment(j, np) ==
  IF j < np THEN Pc("augment", j + 1, LoopTwo[1]) ELSE Pc("display", 0, "display")

\* the step after stage in the body of a loop, or what follows the body
Step(loop, stage, after) ==
  IF Position(loop, stage) < Len(loop)
  THEN [pc EXCEPT !.stage = loop[Position(loop, stage) + 1]]
  ELSE after

BatchInit ==
  /\ batch \in BatchLists
  /\ urls = Range(batch)
  /\ web \in [urls -> BatchPageIds]
  /\ imported = TRUE
  /\ files = [s \in Slugs(urls) |-> NoRec]
  /\ pages = [s \in Slugs(urls) |-> 0]
  /\ first = [u \in urls |-> NoRec]
  /\ saved = {} /\ op = NoOp
  /\ pc = Pc("save", 1, LoopOne[1]) /\ cur = NoLocals /\ paths = <<>>
  /\ augmented = <<>> /\ index = {} /\ events = <<>> /\ last_products = <<>>
  /\ PriceIdle /\ FnIdle /\ SerpIdle

batchFixed ==
  <<priceVars, fnVars, serpVars, urls, web, imported, first, saved, op, batch, last_products>>

\* fetcher.py:235, fetch_html; f1: the request succeeds
FetchPage(f1) ==
  /\ At("save", "fetch")
  /\ IF f1
     THEN /\ events' = Append(events, Ev("fetch_ok", pc.i))
          /\ pc' = Step(LoopOne, "fetch", pc)
     ELSE /\ events' = Append(events, Ev("fetch_failed", pc.i))
          /\ pc' = OnFetchFailed(pc.i, Len(batch), Len(paths))
  /\ UNCHANGED <<cur, paths, augmented, index, files, pages, batchFixed>>

\* fetcher.py:236-259: the extractors
ExtractWith(k, parsed) ==
  /\ IF parsed.raised
     THEN /\ events' = Append(events, Ev("extract_failed", k))
          /\ pc' = AfterSave(k, Len(batch), Len(paths), TRUE)
          /\ UNCHANGED cur
     ELSE /\ events' = Append(events, Ev("extract_ok", k))
          /\ pc' = Step(LoopOne, "extract", pc)
          /\ cur' = Locals(parsed, cur.meta)
  /\ UNCHANGED <<paths, augmented, index, files, pages, batchFixed>>
Extract ==
  /\ At("save", "extract")
  /\ ExtractWith(pc.i, Parsed[batch[pc.i]][web[batch[pc.i]]][imported][TRUE])

\* parser.py:263, the re-scout pass; f2: its request succeeds
Rescout(f2) ==
  /\ At("save", "rescout")
  /\ events' = Append(events, Ev("rescout", pc.i))
  /\ cur' = Locals(cur.parsed, Scouted[web[batch[pc.i]]][f2])
  /\ pc' = Step(LoopOne, "rescout", pc)
  /\ UNCHANGED <<paths, augmented, index, files, pages, batchFixed>>

\* app.py:331-332, time.sleep(0.35) after saved_json_paths.append(ppath)
AfterAppend(k) == <<Ev("sleep", k)>>

\* parser.py:286-287: the two writes of save_product, in the order of the code
Writes_json_first == <<"json", "html">>
Writes == <<"html", "json">>
\* the writes that are done when write w raises, or when none does
Written(w) ==
  IF w = "none" THEN Range(Writes)
  ELSE {Writes[i] : i \in 1..(Position(Writes, w) - 1)}
WriteEvents(w, k) ==
  LET Done(x) == x \in Written(w)
      done == SelectSeq(Writes, Done)
  IN [i \in 1..Len(done) |-> Ev(IF done[i] = "html" THEN "write_html" ELSE "write_json", k)]

\* parser.py:264-292 and app.py:328-333: the merge and the two writes, then
\* the append and the delay; w names the write that raises, if one does
WriteWith(w, k, slug, sv) ==
  /\ cur' = NoLocals
  /\ IF sv.raised
     THEN /\ events' = Append(events, Ev("merge_failed", k))
          /\ pc' = AfterSave(k, Len(batch), Len(paths), TRUE)
          /\ UNCHANGED <<files, pages, paths>>
     ELSE /\ events' = events \o WriteEvents(w, k)
                          \o (IF w = "none" THEN AfterAppend(k) ELSE <<Ev("write_failed", k)>>)
          /\ pages' = IF "html" \in Written(w)
                      THEN [pages EXCEPT ![slug] = web[batch[k]]] ELSE pages
          /\ files' = IF "json" \in Written(w)
                      THEN [files EXCEPT ![slug] = write_text(files[slug], sv.data)]
                      ELSE files
          /\ paths' = IF w = "none" THEN Append(paths, k) ELSE paths
          /\ pc' = AfterSave(k, Len(batch), Len(paths) + (IF w = "none" THEN 1 ELSE 0),
                             w # "none")
  /\ UNCHANGED <<augmented, index, batchFixed>>
WriteFiles(w) ==
  /\ At("save", "write")
  /\ WriteWith(w, pc.i, _slugify(batch[pc.i]), save_product(cur.parsed, cur.meta))

\* app.py:342, augment_and_save_product; aw: the write back succeeds
AugmentWith(aw, k, slug, data) ==
  /\ events' = Append(events, Ev("augment", k))
  /\ files' = IF data = EmptyDict \/ ~aw THEN files
              ELSE [files EXCEPT ![slug] = augment_and_save_product(data)]
  /\ pc' = Step(LoopTwo, "augment", AfterAugment(pc.i, Len(paths)))
  /\ UNCHANGED <<cur, paths, augmented, index, pages, batchFixed>>
AugmentRecord(aw) ==
  /\ At("augment", "augment")
  /\ AugmentWith(aw, paths[pc.i], _slugify(batch[paths[pc.i]]),
                 load_saved_product(files[_slugify(batch[paths[pc.i]])]))

\* app.py:344-348, indexer.upsert_product_file; ok: it does not raise
Upsert(ok) ==
  /\ At("augment", "upsert")
  /\ events' = Append(events, Ev(IF ok THEN "upsert_ok" ELSE "upsert_failed", paths[pc.i]))
  /\ index' = IF ok THEN index \cup {_slugify(batch[paths[pc.i]])} ELSE index
  /\ augmented' = IF Position(LoopTwo, "upsert") = Len(LoopTwo)
                  THEN Append(augmented, paths[pc.i]) ELSE augmented
  /\ pc' = Step(LoopTwo, "upsert", AfterAugment(pc.i, Len(paths)))
  /\ UNCHANGED <<cur, paths, files, pages, batchFixed>>

\* app.py:355-366: the product shown for entry k of the batch, at position
\* pos of augmented_paths; data is the record loaded from its file
UrlStr(u) ==
  IF u = NoUrl THEN <<>>
  ELSE <<"https://">> \o u.netloc \o u.path
         \o (IF u.query = <<>> THEN <<>> ELSE <<"?">> \o u.query)
Product(k, pos, stem, data) ==
  [k |-> k, pos |-> pos, stem |-> stem, title |-> Or(data.name, <<"Unknown">>),
   priced |-> Truthy(StoredPrice(data)), image |-> data.images # <<>>,
   reviews |-> Len(data.reviews), url |-> UrlStr(data.source_url)]
\* line 358: data.get("offers", {}).get("price") raises when offers is a list
PriceRaises(data) == data.offers = "list"
Products(aug) ==
  [i \in 1..Len(aug) |->
     Product(aug[i], i, _slugify(batch[aug[i]]),
             load_saved_product(files[_slugify(batch[aug[i]])]))]
ProductsRaise(aug) ==
  \E i \in 1..Len(aug) : PriceRaises(load_saved_product(files[_slugify(batch[aug[i]])]))

\* line 369: a dict keeps the place of the first product of a stem and the
\* value of the last one
products_by_stem(products) ==
  LET Firsts == {i \in 1..Len(products) :
                   \A j \in 1..(i - 1) : products[j].stem # products[i].stem}
      Last(i) == Max({j \in 1..Len(products) : products[j].stem = products[i].stem})
      IsFirst(p) == p.pos \in Firsts
      firsts == SelectSeq(products, IsFirst)
  IN [n \in 1..Len(firsts) |-> products[Last(firsts[n].pos)]]

\* an item of indexer.semantic_search: its metadata url and its document
SemItem(url, doc) == [url |-> url, doc |-> doc]
Sem(raised, items) == [raised |-> raised, items |-> items]

\* lines 378-385: the first product whose url holds the item's url, 0 if none
UrlMatch(it, byStem) ==
  IF it.url = <<>> THEN 0
  ELSE LET M == {j \in 1..Len(byStem) :
                   byStem[j].url # <<>> /\ Contains(byStem[j].url, it.url)}
       IN IF M = {} THEN 0 ELSE Min(M)
\* lines 387-394: the first unseen product whose title is in the document
TitleMatch(it, byStem, seen) ==
  IF it.doc = <<>> THEN 0
  ELSE LET M == {j \in 1..Len(byStem) :
                   byStem[j].stem \notin seen /\ Contains(it.doc, byStem[j].title)}
       IN IF M = {} THEN 0 ELSE Min(M)

\* lines 374-394: the loop over the items from item i on
RECURSIVE Rank(_, _, _, _, _)
Rank(items, i, byStem, ranked, seen) ==
  IF i > Len(items) THEN [ranked |-> ranked, seen |-> seen]
  ELSE LET u == UrlMatch(items[i], byStem)
           t == TitleMatch(items[i], byStem, seen)
           j == IF u # 0 THEN (IF byStem[u].stem \in seen THEN 0 ELSE u) ELSE t
       IN IF j = 0 THEN Rank(items, i + 1, byStem, ranked, seen)
          ELSE Rank(items, i + 1, byStem, Append(ranked, byStem[j]),
                    seen \cup {byStem[j].stem})

\* lines 397-400
Ranked(products, r) ==
  LET Unseen(p) == p.stem \notin r.seen
      all == r.ranked \o SelectSeq(products, Unseen)
  IN IF all # <<>> THEN all ELSE products

ReviewPoints == 5
PricePoints == 3
\* lines 404-412, times 2 * len(products) to stay in the integers
Heuristic(p, n) ==
  2 * n * ((IF p.priced THEN PricePoints ELSE 0)
           + (IF p.reviews < ReviewPoints THEN p.reviews ELSE ReviewPoints)
           + (IF p.image THEN 1 ELSE 0))
    + (n - (p.pos - 1))
\* line 413: sorted(products, key=score, reverse=True), a stable sort
RECURSIVE SortedByScore(_, _)
SortedByScore(products, n) ==
  IF products = <<>> THEN <<>>
  ELSE LET best == Max({Heuristic(products[i], n) : i \in 1..Len(products)})
           at == Min({i \in 1..Len(products) : Heuristic(products[i], n) = best})
           Others(p) == p # products[at]
       IN <<products[at]>> \o SortedByScore(SelectSeq(products, Others), n)

\* lines 369-413: the list that is stored
products_sorted(sem, products) ==
  IF sem.raised THEN SortedByScore(products, Len(products))
  ELSE Ranked(products, Rank(sem.items, 1, products_by_stem(products), <<>>, {}))

\* what semantic_search may return: the records of the index, and a record
\* of an earlier run whose text holds the title of a product of this run
MaxItems == 2
ForeignItem == SemItem(UrlStr(Url(<<"old", ".", "example">>, <<"/", "p">>, <<>>)), Title)
IndexItems ==
  {SemItem(UrlStr(files[s].source_url), <<>>) : s \in index} \cup {ForeignItem}
SemResults ==
  {Sem(TRUE, <<>>)}
    \cup {Sem(FALSE, items) : items \in UNION {[1..n -> IndexItems] : n \in 0..MaxItems}}

\* app.py:353-416: the product list is built, ranked and stored; the
\* exception of line 358 is caught nowhere and ends the run of the script
DisplayWith(sem, raises, products) ==
  /\ IF raises
     THEN /\ events' = Append(events, Ev("display_failed", 0))
          /\ UNCHANGED last_products
     ELSE /\ events' = Append(events, Ev("display", 0))
          /\ last_products' = products_sorted(sem, products)
  /\ pc' = Pc("done", 0, "none")
  /\ UNCHANGED <<cur, paths, augmented, index, files, pages, priceVars, fnVars, serpVars,
                 urls, web, imported, first, saved, op, batch>>
Display(sem) ==
  /\ At("display", "display")
  /\ DisplayWith(sem, ProductsRaise(augmented), Products(augmented))

BatchNext ==
  \/ \E f1 \in BOOLEAN : FetchPage(f1)
  \/ Extract
  \/ \E f2 \in BOOLEAN : Rescout(f2)
  \/ \E w \in {"none", "html", "json"} : WriteFiles(w)
  \/ \E aw \in BOOLEAN : AugmentRecord(aw)
  \/ \E ok \in BOOLEAN : Upsert(ok)
  \/ \E sem \in SemResults : Display(sem)

SpecBatch == BatchInit /\ [][BatchNext]_vars

(***************************************************************************)
(* Properties of the search pipeline                                       *)
(***************************************************************************)
Entries == 1..Len(batch)
\* the entries of the events of some kinds, and the kinds of the events of
\* an entry, both in the order in which they happened
EntriesOf(kinds) ==
  LET Test(e) == e.ev \in kinds
      es == SelectSeq(events, Test)
  IN [i \in 1..Len(es) |-> es[i].k]
KindsOf(k, kinds) ==
  LET Test(e) == e.k = k /\ e.ev \in kinds
      es == SelectSeq(events, Test)
  IN [i \in 1..Len(es) |-> es[i].ev]
AllKinds ==
  {"fetch_ok", "fetch_failed", "extract_ok", "extract_failed", "rescout", "merge_failed",
   "write_html", "write_json", "write_failed", "sleep", "augment", "upsert_ok",
   "upsert_failed"}
Failures == {"fetch_failed", "extract_failed", "merge_failed", "write_failed"}

\* C18: when the first loop is over, every URL of the batch has been
\* attempted exactly once, in list order, whatever failed on the way, and the
\* records handed to augmentation are those of the URLs whose save_product
\* returned, in the same order; the second loop augments them in that order.
C18_BatchNeverAborts ==
  /\ IsPrefix(EntriesOf({"fetch_ok", "fetch_failed"}), [i \in Entries |-> i])
  /\ paths = EntriesOf({"write_json"})
  /\ IsPrefix(EntriesOf({"augment"}), paths)
  /\ pc.phase # "save" => EntriesOf({"fetch_ok", "fetch_failed"}) = [i \in Entries |-> i]
  /\ pc.phase = "done" => EntriesOf({"augment"}) = paths

\* the first URL failed and a later one was saved, augmented and indexed
C18_Witness ==
  /\ pc.phase = "done" /\ KindsOf(1, Failures) # <<>>
  /\ paths # <<>> /\ index # {}

\* the steps that take an entry to its next state: Fetched, Extracted (the
\* extractors, then the record on disk), Augmented, Indexed
StateSteps == <<"fetch_ok", "extract_ok", "write_json", "augment", "upsert_ok">>

C20_FetchFailedTerminal ==
  \A k \in Entries :
    KindsOf(k, {"fetch_failed"}) # <<>> =>
      /\ KindsOf(k, AllKinds) = <<"fetch_failed">>
      /\ k \notin Range(paths) /\ k \notin Range(augmented)
      /\ (\A j \in Entries \ {k} : _slugify(batch[j]) # _slugify(batch[k]))
           => /\ files[_slugify(batch[k])] = NoRec
              /\ pages[_slugify(batch[k])] = 0
              /\ _slugify(batch[k]) \notin index

\* the batch is over; one URL failed at its fetch, another was indexed
C20_Witness ==
  /\ pc.phase = "done"
  /\ \E k \in Entries : KindsOf(k, AllKinds) = <<"fetch_failed">>
  /\ \E k \in Entries : KindsOf(k, {"upsert_ok"}) # <<>>

\* the identifiers of the products stored for display
Stems(products) == [i \in 1..Len(products) |-> products[i].stem]
Upserts == {"upsert_ok", "upsert_failed"}

\* C21: a record whose upsert failed stays in the list of augmented records;
\* when the run is over the product list stored for display holds it, and
\* every saved record has had its upsert attempted.
C21_UpsertFailureContained ==
  \A k \in Entries :
    KindsOf(k, {"upsert_failed"}) # <<>> =>
      /\ k \in Range(augmented)
      /\ pc.phase = "done" =>
           /\ \A j \in Range(paths) : KindsOf(j, Upserts) # <<>>
           /\ _slugify(batch[k]) \in Range(Stems(last_products))

Fetches == {"fetch_ok", "fetch_failed"}
SaveKinds == Fetches \cup {"extract_ok", "extract_failed", "rescout", "merge_failed",
                          "write_html", "write_json", "write_failed", "sleep"}

\* C25: the URLs are worked on one at a time: between the fetch of a URL
\* and the fetch of the next one, every step of the first loop belongs to
\* the first of the two, and one of them is the delay, also when the
\* processing of that URL failed.
C25_DelayBetweenFetches ==
  \A a, b \in 1..Len(events) :
    (/\ a < b
     /\ events[a].ev \in Fetches /\ events[b].ev \in Fetches
     /\ events[b].k = events[a].k + 1) =>
      /\ \A c \in (a + 1)..(b - 1) : events[c].ev \in SaveKinds => events[c].k = events[a].k
      /\ \E c \in (a + 1)..(b - 1) : events[c] = Ev("sleep", events[a].k)

\* C26: a record file written by save_product has a page snapshot under the
\* same identifier, in every state, also after a failure between the two
\* writes; and the write of the snapshot of a URL comes before the write of
\* its record.
C26_SnapshotBeforeRecord ==
  /\ \A s \in DOMAIN files : files[s] # NoRec => pages[s] # 0
  /\ \A k \in Entries :
       IsPrefix(KindsOf(k, {"write_html", "write_json"}), <<"write_html", "write_json">>)

\* the first save of an identifier failed between the two writes: the
\* snapshot is there and the record is not
C26_Witness ==
  \E k \in Entries :
    /\ KindsOf(k, {"write_html", "write_json", "write_failed"}) = <<"write_html", "write_failed">>
    /\ files[_slugify(batch[k])] = NoRec /\ pages[_slugify(batch[k])] # 0

\* C30: when the run is over, the product list stored for display is a
\* permutation of the augmented records: each entry of augmented_paths has
\* exactly one product in it, and it holds nothing else, whatever the
\* semantic search returned and also when two URLs have the same identifier.
C30_DisplayIsPermutation ==
  pc.phase = "done" =>
    /\ Len(last_products) = Len(augmented)
    /\ \A i \in 1..Len(augmented) :
         Cardinality({n \in 1..Len(last_products) :
                        last_products[n].pos = i /\ last_products[n].k = augmented[i]}) = 1

====
